---- MODULE Spec2Model ----
(***************************************************************************)
(* Backlink indexer of lens-relay-server (crates/y-sweet-core/src/         *)
(* link_indexer.rs) together with the change-event callback of             *)
(* crates/relay/src/server.rs.                                             *)
(*                                                                         *)
(* Documents live in one relay.  A folder document owns filemeta_v0        *)
(* (path -> uuid) and backlinks_v0 (target uuid -> list of source uuids);  *)
(* a content document owns a text body.  A text body is a sequence of      *)
(* tokens: plain text, a wikilink outside code, or a wikilink inside a     *)
(* code span / fenced block.                                               *)
(***************************************************************************)
EXTENDS Integers, Sequences, FiniteSets, Bags, TLC

VARIABLES
    filemeta,       \* folder uuid -> (path -> uuid)            filemeta_v0
    backlinks,      \* folder uuid -> (target -> Seq(source))   backlinks_v0
    contents,       \* loaded content uuid -> Seq(token)        Y.Text "contents"
    pending,        \* doc_id -> age of the last update         LinkIndexer.pending
    queue,          \* Seq(doc_id)                              mpsc channel
    filemeta_cache, \* folder doc_id -> (uuid -> basename)      LinkIndexer.filemeta_cache
    callers,        \* bag of running on_document_update tasks  tokio::spawn in the callback
    worker,         \* run_worker's position and locals
    env,            \* what the outside world has done so far
    obs,            \* observations of the last step (return values, callback flags)
    resolver,       \* path_to_doc and uuid_to_path                DocumentResolver
    search,         \* search_tx, search_worker's locals, SearchIndex  server.rs
    mcp             \* SessionManager and the edit tool call in flight  mcp/session.rs

vars == <<filemeta, backlinks, contents, pending, queue, filemeta_cache,
          callers, worker, env, obs, resolver, search, mcp>>

----------------------------------------------------------------------------
(* Bounds of the model *)

MaxEdits == 2       \* client edits of content documents while the worker runs
MaxMetaOps == 1     \* client changes of folder metadata while the worker runs
MaxSeqOps == 3      \* client operations between sequential passes
ChannelCapacity == 2 \* slots of the worker's input queue in this model

(* Program constants *)

DEBOUNCE_DURATION == 2

IndexerOrigin == "link-indexer"
UserOrigin == "user"

None == "none"     \* no uuid
Absent == <<>>      \* no doc_id, no list, no text (Option::None of a sequence)
Some(x) == <<x>>

----------------------------------------------------------------------------
(* The universe of documents *)

Relay == "r1"
FolderUuids == {"fA", "fB", "fC"}
ContentUuids == {"u1", "u2", "u3"}
FolderOrderAll == <<"fA", "fB", "fC">>

MkDocId(relay_id, uuid) == <<relay_id, uuid>>

FolderIds == {MkDocId(Relay, f) : f \in FolderUuids}
\* a document key that is not "{relay_id}-{uuid}"
BadDocId == <<"scratch">>

DocIds == FolderIds \cup {MkDocId(Relay, u) : u \in ContentUuids} \cup {BadDocId}

\* docs.contains_key: the folder documents are loaded, and so is every
\* content document that has a text in cs
DocsContainsKey(doc_id, cs) ==
    \/ doc_id \in FolderIds
    \/ doc_id \in {MkDocId(Relay, u) : u \in DOMAIN cs}

parse_doc_id(doc_id) ==
    IF Len(doc_id) = 2 THEN doc_id ELSE Absent

Basenames == {"Foo", "Bar"}
Dirs == {"", "Notes"}
Paths == [dir : Dirs, base : Basenames]
Path(d, b) == [dir |-> d, base |-> b]

\* the order in which a filemeta map is iterated
PathOrder ==
    <<Path("", "Foo"), Path("", "Bar"), Path("Notes", "Foo"), Path("Notes", "Bar"),
      Path("Notes", "foo"), Path("", "foo")>>

Lower(s) ==
    CASE s = "Foo" -> "foo"
      [] s = "foo" -> "foo"
      [] s = "Bar" -> "bar"
      [] s = "Notes" -> "notes"
      [] OTHER -> s

Link(n, sfx) == [kind |-> "link", name |-> Path("", n), suffix |-> sfx]
PathLink(d, n) == [kind |-> "link", name |-> Path(d, n), suffix |-> ""]
CodeLink(n) == [kind |-> "code", name |-> Path("", n), suffix |-> ""]
FenceLink(n) == [kind |-> "fence", name |-> Path("", n), suffix |-> ""]
Text(t) == [kind |-> "text", name |-> Path("", t), suffix |-> ""]

----------------------------------------------------------------------------
(* Helpers on partial maps and sequences *)

Put(f, k, v) == [x \in DOMAIN f \cup {k} |-> IF x = k THEN v ELSE f[x]]
Del(f, k) == [x \in DOMAIN f \ {k} |-> f[x]]
EmptyMap == [x \in {} |-> None]

Range(s) == {s[i] : i \in DOMAIN s}
Contains(s, x) == \E i \in DOMAIN s : s[i] = x

RECURSIVE Without(_, _)
Without(s, x) ==
    IF s = <<>> THEN <<>>
    ELSE IF Head(s) = x THEN Without(Tail(s), x)
    ELSE <<Head(s)>> \o Without(Tail(s), x)

\* the entries of a filemeta map in iteration order
RECURSIVE IterFrom(_, _)
IterFrom(fm, i) ==
    IF i > Len(PathOrder) THEN <<>>
    ELSE IF PathOrder[i] \in DOMAIN fm
         THEN <<PathOrder[i]>> \o IterFrom(fm, i + 1)
         ELSE IterFrom(fm, i + 1)
Iter(fm) == IterFrom(fm, 1)

\* value of the first of the matching paths, None without a match
FirstMatch(fm, matches) ==
    IF matches = <<>> THEN None ELSE fm[matches[1]]

----------------------------------------------------------------------------
(* link_parser: wikilink extraction and rename edits *)

extract_wikilinks_in_code(markdown) ==
    LET links == SelectSeq(markdown, LAMBDA t : t.kind # "text")
    IN [i \in DOMAIN links |-> links[i].name]

\* extract_wikilinks: names of the wikilinks outside code, in document order
extract_wikilinks(markdown) ==
    LET links == SelectSeq(markdown, LAMBDA t : t.kind = "link")
    IN [i \in DOMAIN links |-> links[i].name]

NameLen(n) ==
    CASE n = "Foo" -> 3
      [] n = "foo" -> 3
      [] n = "Bar" -> 3
      [] n = "Notes" -> 5
      [] OTHER -> 1

SuffixLen(sfx) ==
    CASE sfx = "" -> 0
      [] sfx = "#Sec" -> 4
      [] sfx = "|Alias" -> 6
      [] OTHER -> 1

\* the text of a link name: "Foo" or "Notes/Foo"
NameBytes(name) ==
    IF name.dir = "" THEN NameLen(name.base)
    ELSE NameLen(name.dir) + 1 + NameLen(name.base)

\* bytes a token occupies in the text
TokenBytes(t) ==
    CASE t.kind = "text" -> NameLen(t.name.base)
      [] t.kind = "link" -> 2 + NameBytes(t.name) + SuffixLen(t.suffix) + 2
      [] t.kind = "code" -> 1 + 2 + NameBytes(t.name) + SuffixLen(t.suffix) + 2 + 1
      [] t.kind = "fence" -> 4 + 2 + NameBytes(t.name) + SuffixLen(t.suffix) + 2 + 5
      [] OTHER -> 0

RECURSIVE OffsetOf(_, _)
\* byte offset of the start of token i
OffsetOf(markdown, i) ==
    IF i <= 1 THEN 0
    ELSE OffsetOf(markdown, i - 1) + TokenBytes(markdown[i - 1])

\* byte offset of the name part of the wikilink token i
NameOffset(markdown, i) == OffsetOf(markdown, i) + 2

\* compute_wikilink_rename_edits: one edit per wikilink outside code whose
\* name is old_name, in descending offset order
RECURSIVE EditsFrom(_, _, _, _)
EditsFrom(markdown, i, old_name, new_name) ==
    IF i < 1 THEN <<>>
    ELSE LET t == markdown[i]
             rest == EditsFrom(markdown, i - 1, old_name, new_name)
         IN IF t.kind = "link" /\ t.name = Path("", old_name)
            THEN <<[offset |-> NameOffset(markdown, i),
                    remove_len |-> NameLen(old_name),
                    insert_text |-> new_name]>> \o rest
            ELSE rest

compute_wikilink_rename_edits(markdown, old_name, new_name) ==
    EditsFrom(markdown, Len(markdown), old_name, new_name)

Garbled == [kind |-> "garbled", name |-> Path("", "?"), suffix |-> ""]

\* Y.Text remove_range(offset, remove_len) followed by insert(offset, text):
\* the name that starts at that byte offset and has that length is replaced;
\* an edit that does not land on a name leaves a damaged token behind
ApplyEdit(markdown, edit) ==
    LET hit == {i \in DOMAIN markdown :
                   /\ markdown[i].kind = "link"
                   /\ NameOffset(markdown, i) = edit.offset
                   /\ NameBytes(markdown[i].name) = edit.remove_len}
        near == {i \in DOMAIN markdown :
                   /\ OffsetOf(markdown, i) <= edit.offset
                   /\ edit.offset < OffsetOf(markdown, i) + TokenBytes(markdown[i])}
    IN IF hit # {}
       THEN [i \in DOMAIN markdown |->
               IF i \in hit
               THEN [markdown[i] EXCEPT !.name = Path("", edit.insert_text)]
               ELSE markdown[i]]
       ELSE [i \in DOMAIN markdown |->
               IF i \in near THEN Garbled ELSE markdown[i]]

RECURSIVE ApplyEdits(_, _)
ApplyEdits(markdown, edits) ==
    IF edits = <<>> THEN markdown
    ELSE ApplyEdits(ApplyEdit(markdown, Head(edits)), Tail(edits))

\* the edits in ascending offset order
Ascending(edits) == [i \in DOMAIN edits |-> edits[Len(edits) + 1 - i]]

\* update_wikilinks_in_doc that applies the edits from the start of the text
update_wikilinks_in_doc_ascending(markdown, old_name, new_name) ==
    LET edits == compute_wikilink_rename_edits(markdown, old_name, new_name)
    IN [text |-> ApplyEdits(markdown, Ascending(edits)), count |-> Len(edits)]

\* update_wikilinks_in_doc: the new text and the number of edits applied
update_wikilinks_in_doc(markdown, old_name, new_name) ==
    LET edits == compute_wikilink_rename_edits(markdown, old_name, new_name)
    IN [text |-> ApplyEdits(markdown, edits), count |-> Len(edits)]

----------------------------------------------------------------------------
(* Link resolution *)

\* resolve_links_to_uuids for one name against one filemeta map
ResolveTierExact(name, fm) ==
    IF name \in DOMAIN fm THEN fm[name] ELSE None

ResolveTierFullPath(name, fm) ==
    FirstMatch(fm, SelectSeq(Iter(fm),
                             LAMBDA p : /\ Lower(p.dir) = Lower(name.dir)
                                        /\ Lower(p.base) = Lower(name.base)))

ResolveTierBasename(name, fm) ==
    FirstMatch(fm, SelectSeq(Iter(fm),
                             LAMBDA p : /\ name.dir = ""
                                        /\ Lower(p.base) = Lower(name.base)))

resolve_links_to_uuids_basename_first(name, fm) ==
    IF ResolveTierBasename(name, fm) # None THEN ResolveTierBasename(name, fm)
    ELSE IF ResolveTierFullPath(name, fm) # None THEN ResolveTierFullPath(name, fm)
    ELSE ResolveTierExact(name, fm)

resolve_links_to_uuids(name, fm) ==
    IF ResolveTierExact(name, fm) # None THEN ResolveTierExact(name, fm)
    ELSE IF ResolveTierFullPath(name, fm) # None THEN ResolveTierFullPath(name, fm)
    ELSE ResolveTierBasename(name, fm)

\* the loaded folder docs (non-empty filemeta_v0), sorted by doc_id
find_all_folder_docs(fms) ==
    SelectSeq(FolderOrderAll, LAMBDA f : DOMAIN fms[f] # {})

\* is_folder_doc: the uuids listed in filemeta_v0, or Absent
is_folder_doc(doc_id, fms) ==
    IF doc_id \notin FolderIds THEN Absent
    ELSE LET fm == fms[doc_id[2]]
         IN IF DOMAIN fm = {} THEN Absent
            ELSE LET ps == Iter(fm) IN [i \in DOMAIN ps |-> fm[ps[i]]]

\* step 3 of index_content_into_folders: (target_uuid, folder) of one name;
\* the first folder with a match wins
RECURSIVE ResolveAcross(_, _, _)
ResolveAcross(name, folders, fms) ==
    IF folders = <<>> THEN Absent
    ELSE LET u == resolve_links_to_uuids(name, fms[Head(folders)])
         IN IF u # None THEN <<u, Head(folders)>>
            ELSE ResolveAcross(name, Tail(folders), fms)

Resolved(markdown, folders, fms) ==
    LET names == extract_wikilinks(markdown)
    IN {ResolveAcross(names[i], folders, fms) : i \in DOMAIN names} \ {Absent}

----------------------------------------------------------------------------
(* index_content_into_folders *)

\* read_backlinks_array: the list under a target, empty when the key is absent
read_backlinks_array(bl, target_uuid) ==
    IF target_uuid \in DOMAIN bl THEN bl[target_uuid] ELSE <<>>

\* a cleanup that takes every key for still linked
StillLinked_always(key, all_new_targets) == TRUE

\* "Still linked (possibly in another folder), skip": the keys the stale
\* cleanup of one folder leaves alone
StillLinked(key, all_new_targets) == key \in all_new_targets

\* the push of the source without the test that it is already listed
PushSource_unchecked(current, source_uuid) == Append(current, source_uuid)

\* the list under a new target after the pass: the source is pushed unless
\* the list already contains it
PushSource(current, source_uuid) ==
    IF Contains(current, source_uuid) THEN current ELSE Append(current, source_uuid)

\* a stale removal that drops the whole list
RemoveSource_all(current, source_uuid) == <<>>

\* the list under a stale key after the pass: the source filtered out
RemoveSource(current, source_uuid) == Without(current, source_uuid)

\* step 5 for one folder: add the source under each new target of this
\* folder, then remove it from every other key that is not a new target
DiffUpdateFolder(source_uuid, bl, new_targets, all_new_targets) ==
    LET added == [t \in DOMAIN bl \cup new_targets |->
                    IF t \in new_targets
                    THEN PushSource(read_backlinks_array(bl, t), source_uuid)
                    ELSE bl[t]]
        stale == {k \in DOMAIN added :
                    /\ ~StillLinked(k, all_new_targets)
                    /\ Contains(added[k], source_uuid)}
        gone == {k \in stale : RemoveSource(added[k], source_uuid) = <<>>}
    IN [k \in DOMAIN added \ gone |->
          IF k \in stale THEN RemoveSource(added[k], source_uuid) ELSE added[k]]

\* contents is Some(text), or Absent for a document without a "contents" text
index_content_into_folders(source_uuid, contents_opt, folders, fms, bls) ==
    IF contents_opt = Absent THEN bls
    ELSE LET resolved == Resolved(contents_opt[1], folders, fms)
             targets_per_folder == [f \in FolderUuids |->
                                      {r[1] : r \in {x \in resolved : x[2] = f}}]
             all_new_targets == {r[1] : r \in resolved}
         IN [f \in FolderUuids |->
               IF Contains(folders, f)
               THEN DiffUpdateFolder(source_uuid, bls[f], targets_per_folder[f],
                                     all_new_targets)
               ELSE bls[f]]

\* the text of a document: content documents have one, folder documents do not
ContentsOf(doc_uuid, cs) ==
    IF doc_uuid \in DOMAIN cs THEN Some(cs[doc_uuid]) ELSE Absent

\* index_document holds the read lock of its own document when it takes the
\* write lock of every folder document: doc_id is one of the folder documents
LocksItself(doc_id, fms) ==
    /\ doc_id \in FolderIds
    /\ Contains(find_all_folder_docs(fms), doc_id[2])

\* LinkIndexer::index_document: Ok with the new backlinks, or Err, or stuck in
\* the write lock of a document it has read-locked itself
index_document(doc_id, fms, bls, cs) ==
    IF parse_doc_id(doc_id) = Absent
    THEN [ok |-> FALSE, bls |-> bls, stuck |-> FALSE]
    ELSE IF find_all_folder_docs(fms) = <<>>
    THEN [ok |-> FALSE, bls |-> bls, stuck |-> FALSE]
    ELSE IF ~DocsContainsKey(doc_id, cs)
    THEN [ok |-> FALSE, bls |-> bls, stuck |-> FALSE]
    ELSE IF LocksItself(doc_id, fms)
    THEN [ok |-> FALSE, bls |-> bls, stuck |-> TRUE]
    ELSE [ok |-> TRUE,
          bls |-> index_content_into_folders(parse_doc_id(doc_id)[2],
                      ContentsOf(parse_doc_id(doc_id)[2], cs),
                      find_all_folder_docs(fms), fms, bls),
          stuck |-> FALSE]

----------------------------------------------------------------------------
(* Rename detection and propagation *)

\* basename of a filemeta path: last component, ".md" stripped
Basename(path) == path.base

\* step 1 of detect_renames: uuid -> basename of the current filemeta
\* (a later entry of the iteration overwrites an earlier one of the same uuid)
CurrentSnapshot(fm) ==
    LET ps == Iter(fm)
        ids == {fm[p] : p \in DOMAIN fm}
        last(u) == CHOOSE i \in DOMAIN ps :
                      /\ fm[ps[i]] = u
                      /\ \A j \in DOMAIN ps : fm[ps[j]] = u => j <= i
    IN [u \in ids |-> Basename(ps[last(u)])]

\* a cache that is written only by calls that emit events or seed it
UpdatedCache_on_events(cache, folder_doc_id, current, renames) ==
    IF folder_doc_id \in DOMAIN cache /\ renames = {} THEN cache
    ELSE Put(cache, folder_doc_id, current)

\* step 3 of detect_renames: filemeta_cache.insert(folder_doc_id, current),
\* before the old snapshot is looked at
UpdatedCache(cache, folder_doc_id, current, renames) ==
    Put(cache, folder_doc_id, current)

\* detect_renames without the comparison of the two basenames
detect_renames_unchanged_too(folder_doc_id, fm, cache) ==
    LET current == CurrentSnapshot(fm)
        seeded == folder_doc_id \in DOMAIN cache
        old == IF seeded THEN cache[folder_doc_id] ELSE EmptyMap
    IN [renames |-> {[uuid |-> u, old_name |-> old[u], new_name |-> current[u]] :
                        u \in {x \in DOMAIN current : x \in DOMAIN old}},
        cache |-> Put(cache, folder_doc_id, current)]

\* steps 2-5 of detect_renames: the events, as a set, and the new cache
detect_renames(folder_doc_id, fm, cache) ==
    LET current == CurrentSnapshot(fm)
        seeded == folder_doc_id \in DOMAIN cache
        old == IF seeded THEN cache[folder_doc_id] ELSE EmptyMap
        renames == {[uuid |-> u, old_name |-> old[u], new_name |-> current[u]] :
                        u \in {x \in DOMAIN current :
                                 x \in DOMAIN old /\ old[x] # current[x]}}
    IN [renames |-> renames,
        cache |-> UpdatedCache(cache, folder_doc_id, current, renames)]

\* step 3 of apply_rename_updates for one rename: rewrite every loaded backlinker
RECURSIVE RewriteSources(_, _, _, _)
RewriteSources(source_uuids, relay_id, rename, cs) ==
    IF source_uuids = <<>> THEN cs
    ELSE LET su == Head(source_uuids)
             content_doc_id == MkDocId(relay_id, su)
             next == IF DocsContainsKey(content_doc_id, cs) /\ ContentsOf(su, cs) # Absent
                     THEN [cs EXCEPT ![su] =
                             update_wikilinks_in_doc(cs[su], rename.old_name,
                                                     rename.new_name).text]
                     ELSE cs
         IN RewriteSources(Tail(source_uuids), relay_id, rename, next)

\* step 2 of apply_rename_updates: the renames one after the other
RECURSIVE RewriteRenames(_, _, _, _)
RewriteRenames(renames, relay_id, bl, cs) ==
    IF renames = <<>> THEN cs
    ELSE RewriteRenames(Tail(renames), relay_id, bl,
             RewriteSources(read_backlinks_array(bl, Head(renames).uuid),
                            relay_id, Head(renames), cs))

\* apply_rename_updates with the detected renames taken in the order `renames`
apply_rename_updates(folder_doc_id, renames, bls, cs) ==
    IF ~DocsContainsKey(folder_doc_id, cs) THEN [had |-> FALSE, cs |-> cs]
    ELSE IF renames = <<>> THEN [had |-> FALSE, cs |-> cs]
    ELSE IF parse_doc_id(folder_doc_id) = Absent THEN [had |-> FALSE, cs |-> cs]
    ELSE [had |-> TRUE,
          cs |-> RewriteRenames(renames, parse_doc_id(folder_doc_id)[1],
                                bls[folder_doc_id[2]], cs)]

\* the orders in which a set of rename events can come out of the HashMap
Orders(S) ==
    {s \in [1..Cardinality(S) -> S] : \A i, j \in DOMAIN s : i # j => s[i] # s[j]}

----------------------------------------------------------------------------
(* The change-event callback *)

\* the update observer flags a transaction whose origin is the indexer's
IsIndexerOrigin(origin) == origin = "link-indexer"

\* event_callback without the is_indexer test
EventCallback_unfiltered(doc_key, is_indexer) ==
    [indexer |-> TRUE, search |-> TRUE]

\* event_callback of Server::load_doc_with_user: what it notifies
EventCallback(doc_key, is_indexer) ==
    [indexer |-> ~is_indexer, search |-> ~is_indexer]

\* one committed transaction on a document and what the callback did with it
Transaction(doc_id, origin, by) ==
    LET cb == EventCallback(doc_id, IsIndexerOrigin(origin))
    IN [doc |-> doc_id, origin |-> origin, by |-> by,
        notify |-> cb.indexer, search |-> cb.search]

\* SEARCH_DEBOUNCE, in seconds
SEARCH_DEBOUNCE == 2

SearchCapacity == 2 \* slots of the search worker's input queue in this model

\* a server whose SearchIndex could not be opened: no search_tx, no
\* search_worker. `since` is the time since the last client update of a
\* document, kept up to SEARCH_DEBOUNCE
SearchOff ==
    [tx |-> FALSE, queue |-> <<>>, pending |-> EmptyMap, filemeta_cache |-> EmptyMap,
     index |-> EmptyMap, pc |-> "recv", doc_id |-> Absent, folder_content |-> Absent,
     since |-> EmptyMap]

\* a server with a SearchIndex built from the loaded documents cs
SearchOn(cs) == [SearchOff EXCEPT !.tx = TRUE, !.index = cs]

\* tx.try_send(doc_key): the message is queued unless the channel is full
SearchTrySend(s, doc_key) ==
    IF Len(s.queue) < SearchCapacity
    THEN [s EXCEPT !.queue = Append(@, doc_key)]
    ELSE s

\* the search half of the event callback for one transaction: try_send on
\* every update that is not the indexer's, when there is a search_tx
SearchNotified(s, t) ==
    IF t.search /\ s.tx
    THEN [SearchTrySend(s, t.doc) EXCEPT !.since = Put(@, t.doc, 0)]
    ELSE s

\* a spawned task; late marks a call that was running when the worker cleared
\* the document's pending entry
NewCaller(doc_id) == [doc |-> doc_id, pc |-> "check", already |-> FALSE, late |-> FALSE]

\* the on_document_update tasks spawned for a set of transactions
Spawned(txns) ==
    LET notified == {t.doc : t \in {x \in txns : x.notify}}
    IN SetToBag({NewCaller(d) : d \in notified})

----------------------------------------------------------------------------
(* DocumentResolver *)

\* DocumentResolver::new
EmptyResolver == [path_to_doc |-> EmptyMap, uuid_to_path |-> EmptyMap]

derive_folder_name(folder_idx) == IF folder_idx = 0 THEN "Lens" ELSE "Lens Edu"

\* format!("{}/{}", folder_name, stripped): the user-facing path of a filemeta
\* path; every filemeta path of the model starts with "/", which is stripped
FullPath(folder_name, path) ==
    [folder |-> folder_name, dir |-> path.dir, base |-> path.base]

\* the loop of rebuild_from_folder_doc over filemeta.iter(), in the order
\* `order`: both maps get the entry of each path
RECURSIVE RebuildEntries(_, _, _, _, _)
RebuildEntries(r, folder_doc_id, folder_name, fm, order) ==
    IF order = <<>> THEN r
    ELSE LET uuid == fm[Head(order)]
             full_path == FullPath(folder_name, Head(order))
             relay_id == IF parse_doc_id(folder_doc_id) = Absent THEN ""
                         ELSE parse_doc_id(folder_doc_id)[1]
             info == [uuid |-> uuid, relay_id |-> relay_id,
                      folder_doc_id |-> folder_doc_id,
                      folder_name |-> folder_name,
                      doc_id |-> MkDocId(relay_id, uuid)]
         IN RebuildEntries([path_to_doc |-> Put(r.path_to_doc, full_path, info),
                            uuid_to_path |-> Put(r.uuid_to_path, uuid, full_path)],
                           folder_doc_id, folder_name, fm, Tail(order))

rebuild_from_folder_doc(r, folder_doc_id, folder_idx, fm, order) ==
    RebuildEntries(r, folder_doc_id, derive_folder_name(folder_idx), fm, order)

\* remove_folder_entries: every path whose DocInfo names the folder goes, and
\* with it the uuid_to_path entry of that DocInfo's uuid
remove_folder_entries(r, folder_doc_id) ==
    LET paths_to_remove == {p \in DOMAIN r.path_to_doc :
                              r.path_to_doc[p].folder_doc_id = folder_doc_id}
        uuids == {r.path_to_doc[p].uuid : p \in paths_to_remove}
    IN [path_to_doc |-> [p \in DOMAIN r.path_to_doc \ paths_to_remove |->
                            r.path_to_doc[p]],
        uuid_to_path |-> [u \in DOMAIN r.uuid_to_path \ uuids |->
                            r.uuid_to_path[u]]]

\* update_folder; order is the order of filemeta.iter()
update_folder(r, folder_doc_id, folder_idx, fms, order) ==
    IF folder_doc_id \notin FolderIds THEN remove_folder_entries(r, folder_doc_id)
    ELSE rebuild_from_folder_doc(remove_folder_entries(r, folder_doc_id),
                                 folder_doc_id, folder_idx,
                                 fms[folder_doc_id[2]], order)

\* the loop of rebuild over the sorted folder documents, from position
\* folder_idx on; orders[f] is the order of folder f's filemeta.iter()
RECURSIVE RebuildFolders(_, _, _, _, _)
RebuildFolders(r, folders, folder_idx, fms, orders) ==
    IF folders = <<>> THEN r
    ELSE RebuildFolders(rebuild_from_folder_doc(r, MkDocId(Relay, Head(folders)),
                                                folder_idx, fms[Head(folders)],
                                                orders[Head(folders)]),
                        Tail(folders), folder_idx + 1, fms, orders)

\* DocumentResolver::rebuild: clear both maps, then every folder document
rebuild(fms, orders) ==
    RebuildFolders(EmptyResolver, find_all_folder_docs(fms), 0, fms, orders)

resolve_path(r, path) ==
    IF path \in DOMAIN r.path_to_doc THEN Some(r.path_to_doc[path]) ELSE Absent

path_for_uuid(r, uuid) ==
    IF uuid \in DOMAIN r.uuid_to_path THEN Some(r.uuid_to_path[uuid]) ELSE Absent

all_paths(r) == DOMAIN r.path_to_doc

----------------------------------------------------------------------------
(* Initial state: a running server at rest *)

InitFilemeta ==
    [f \in FolderUuids |->
        IF f = "fA"
        THEN (Path("", "Foo") :> "u2") @@ (Path("Notes", "Bar") :> "u1")
        ELSE EmptyMap]

\* the loaded content documents and their texts
InitContents(loaded) ==
    [u \in loaded |-> IF u = "u1" THEN <<Link("Foo", "")>> ELSE <<>>]

EmptyBacklinks == [f \in FolderUuids |-> EmptyMap]

\* the loaded content documents, in the order the startup pass visits them
RECURSIVE DocSeq(_)
DocSeq(S) ==
    IF S = {} THEN <<>>
    ELSE LET u == CHOOSE x \in S : TRUE
         IN <<MkDocId(Relay, u)>> \o DocSeq(S \ {u})

\* index_document on the documents doc_ids, one after the other
RECURSIVE ReindexDocs(_, _, _, _)
ReindexDocs(doc_ids, fms, bls, cs) ==
    IF doc_ids = <<>> THEN bls
    ELSE ReindexDocs(Tail(doc_ids), fms,
                     index_document(Head(doc_ids), fms, bls, cs).bls, cs)

RECURSIVE SeedCache(_, _, _)
SeedCache(folders, fms, cache) ==
    IF folders = <<>> THEN cache
    ELSE SeedCache(Tail(folders), fms,
                   detect_renames(MkDocId(Relay, Head(folders)),
                                  fms[Head(folders)], cache).cache)

\* a server at rest: every loaded content document has had its index pass
\* and every folder its folder pass
IndexedState(fms, cs) ==
    [bls |-> ReindexDocs(DocSeq(DOMAIN cs), fms, EmptyBacklinks, cs),
     cache |-> SeedCache(find_all_folder_docs(fms), fms, EmptyMap)]

\* the keys of the docs map: the folder documents and the loaded content
\* documents
LoadedDocIds(cs) == {d \in DocIds : DocsContainsKey(d, cs)}

\* the loop of reindex_all_backlinks over docs.iter(), visiting doc_ids in
\* order: it ends when every document is done, or never when one
\* index_document gets stuck
RECURSIVE ReindexLoop(_, _, _, _, _)
ReindexLoop(doc_ids, fms, bls, cs, indexed) ==
    IF doc_ids = <<>> THEN [returned |-> TRUE, bls |-> bls, indexed |-> indexed]
    ELSE LET r == index_document(Head(doc_ids), fms, bls, cs)
         IN IF r.stuck
            THEN [returned |-> FALSE, bls |-> bls, indexed |-> indexed]
            ELSE ReindexLoop(Tail(doc_ids), fms, r.bls, cs,
                             IF r.ok THEN indexed \cup {Head(doc_ids)} ELSE indexed)

\* reindex_all_backlinks with docs.iter() yielding the documents in `order`:
\* index_document on every entry, then the seeding of the filemeta cache
reindex_all_backlinks(fms, bls, cs, cache, order) ==
    LET loop == ReindexLoop(order, fms, bls, cs, {})
    IN [returned |-> loop.returned, bls |-> loop.bls, indexed |-> loop.indexed,
        cache |-> IF loop.returned
                  THEN SeedCache(find_all_folder_docs(fms), fms, cache)
                  ELSE cache]

\* no edit tool call in flight
NoCall == [pc |-> "idle", session_id |-> 0, existed |-> FALSE, doc_id |-> Absent,
           old_string |-> <<>>, byte_offset |-> 0, replacement |-> <<>>]

\* SessionManager::new, and no tool call yet; `reads` remembers every read
\* the read tool has completed, as (session, doc_id)
NoMcp == [sessions |-> EmptyMap, created |-> 0, ops |-> 0, reads |-> {}, call |-> NoCall]

IdleWorker ==
    [pc |-> "recv", doc_id |-> Absent, folder_content |-> Absent,
     had_renames |-> FALSE, todo |-> <<>>, already |-> FALSE, called |-> {},
     ready |-> FALSE]

NoRename == [folder |-> None, uuid |-> None, old_name |-> None, new_name |-> None,
             sources |-> {}]

NoObs(unseen, sent) ==
    [unseen |-> unseen, sent |-> sent, txns |-> {},
     renames |-> [ran |-> FALSE, folder |-> None, had |-> FALSE, events |-> <<>>,
                  prev |-> Absent, before |-> <<>>],
     indexed |-> None, marked |-> Absent,
     startup |-> [ran |-> FALSE, outcome |-> None, indexed |-> {}],
     resolved |-> [op |-> None, folder |-> None],
     log |-> None,
     rewrite |-> [ran |-> FALSE, uuid |-> None, old_name |-> None,
                  new_name |-> None, before |-> <<>>, count |-> 0],
     upsert |-> [ran |-> FALSE, doc |-> Absent, since |-> 0],
     edit |-> [ran |-> FALSE, step |-> None, session_id |-> 0, existed |-> FALSE,
               doc_id |-> Absent, result |-> None, old_string |-> <<>>,
               byte_offset |-> 0, replacement |-> <<>>, before |-> EmptyMap]]

InitWith(loaded) ==
    /\ filemeta = InitFilemeta
    /\ contents = InitContents(loaded)
    /\ backlinks = IndexedState(InitFilemeta, InitContents(loaded)).bls
    /\ filemeta_cache = IndexedState(InitFilemeta, InitContents(loaded)).cache
    /\ pending = EmptyMap
    /\ queue = <<>>
    /\ search = SearchOff /\ mcp = NoMcp
    /\ callers = EmptyBag
    /\ worker = IdleWorker
    /\ env = [edits |-> 0, metas |-> 0, rename |-> NoRename,
            booted |-> TRUE]
    /\ obs = NoObs({}, [d \in DocIds |-> 0])
    /\ resolver = EmptyResolver

\* the server with one loaded content document
Init == InitWith({"u1"})

----------------------------------------------------------------------------
(* The outside world: clients edit documents *)

\* the texts a client may leave in a content document
ContentChoices ==
    { <<>>,
      <<Link("Foo", "")>>,
      <<Link("Bar", "")>>,
      <<Link("Foo", "#Sec"), Link("Foo", "|Alias")>> }

HasLink(markdown, n) ==
    \E i \in DOMAIN markdown :
        markdown[i].kind = "link" /\ markdown[i].name = Path("", n)

\* a client of the started server commits a new text; the callback sees a
\* user transaction
ClientEdit(u, c) ==
    /\ env.booted
    /\ u \in DOMAIN contents
    /\ c # contents[u]
    /\ contents' = [contents EXCEPT ![u] = c]
    /\ env' = [env EXCEPT !.edits = @ + 1, !.rename = NoRename]
    /\ obs' = [NoObs(obs.unseen, obs.sent) EXCEPT
                  !.txns = {Transaction(MkDocId(Relay, u), UserOrigin, "user")}]
    /\ search' = SearchNotified(search, Transaction(MkDocId(Relay, u), UserOrigin, "user"))
    /\ UNCHANGED <<mcp, filemeta, backlinks, pending, queue, filemeta_cache, worker, resolver>>

EditContent(u, c) ==
    /\ env.edits < MaxEdits
    /\ ClientEdit(u, c)
    /\ callers' = callers (+) Spawned(obs'.txns)

Listed(fms) == UNION {{fms[f][p] : p \in DOMAIN fms[f]} : f \in FolderUuids}

\* a client changes a folder's filemeta in one transaction; rn remembers a
\* rename together with the backlinkers that link to the old name
ClientMeta(f, fm, rn) ==
    /\ env.booted
    /\ fm # filemeta[f]
    /\ filemeta' = [filemeta EXCEPT ![f] = fm]
    /\ env' = [env EXCEPT !.metas = @ + 1, !.rename = rn]
    /\ obs' = [NoObs(obs.unseen, obs.sent) EXCEPT
                  !.txns = {Transaction(MkDocId(Relay, f), UserOrigin, "user")}]
    /\ search' = SearchNotified(search, Transaction(MkDocId(Relay, f), UserOrigin, "user"))
    /\ UNCHANGED <<mcp, backlinks, contents, pending, queue, filemeta_cache, worker, resolver>>

\* the sources listed under the file's uuid whose text links to its old name
LinkingSources(f, uuid, old_name) ==
    {su \in DOMAIN contents :
        /\ Contains(read_backlinks_array(backlinks[f], uuid), su)
        /\ HasLink(contents[su], old_name)}

\* the file at path p gets the basename b (same directory, same uuid)
ClientRename(f, p, b) ==
    /\ p \in DOMAIN filemeta[f]
    /\ Path(p.dir, b) \notin DOMAIN filemeta[f]
    /\ ClientMeta(f, Put(Del(filemeta[f], p), Path(p.dir, b), filemeta[f][p]),
                  [folder |-> f, uuid |-> filemeta[f][p], old_name |-> p.base,
                   new_name |-> b,
                   sources |-> LinkingSources(f, filemeta[f][p], p.base)])

\* the file at path p moves to directory d (same basename, same uuid)
ClientMove(f, p, d) ==
    /\ p \in DOMAIN filemeta[f]
    /\ Path(d, p.base) \notin DOMAIN filemeta[f]
    /\ ClientMeta(f, Put(Del(filemeta[f], p), Path(d, p.base), filemeta[f][p]),
                  NoRename)

\* the file at path p is deleted from the folder
ClientRemove(f, p) ==
    /\ p \in DOMAIN filemeta[f]
    /\ ClientMeta(f, Del(filemeta[f], p), NoRename)

\* a file that no folder lists is added at path p
ClientAdd(f, p, u) ==
    /\ p \notin DOMAIN filemeta[f]
    /\ u \notin Listed(filemeta)
    /\ ClientMeta(f, Put(filemeta[f], p, u), NoRename)

RenameFile(f, p, b) ==
    /\ env.metas < MaxMetaOps
    /\ ClientRename(f, p, b)
    /\ callers' = callers (+) Spawned(obs'.txns)

MoveFile(f, p, d) ==
    /\ env.metas < MaxMetaOps
    /\ ClientMove(f, p, d)
    /\ callers' = callers (+) Spawned(obs'.txns)

RemoveFile(f, p) ==
    /\ env.metas < MaxMetaOps
    /\ ClientRemove(f, p)
    /\ callers' = callers (+) Spawned(obs'.txns)

AddFile(f, p, u) ==
    /\ env.metas < MaxMetaOps
    /\ ClientAdd(f, p, u)
    /\ callers' = callers (+) Spawned(obs'.txns)


----------------------------------------------------------------------------
(* LinkIndexer::on_document_update, run by a spawned task *)

Min(a, b) == IF a < b THEN a ELSE b

BagRemove(b, c) == b (-) SetToBag({c})
BagAdd(b, c) == b (+) SetToBag({c})

\* pending.contains_key(doc_id)
PendingContains(p, doc_id) == doc_id \in DOMAIN p

\* the caller may proceed to index_tx.send when the entry was not there
ShouldSend(already_pending) == ~already_pending

\* let already_pending = self.pending.contains_key(doc_id)
CallerCheck(c) ==
    /\ c \in BagToSet(callers)
    /\ c.pc = "check"
    /\ callers' = BagAdd(BagRemove(callers, c),
                         [c EXCEPT !.pc = "insert",
                                   !.already = PendingContains(pending, c.doc)])
    /\ obs' = NoObs(obs.unseen \cup {c.doc}, obs.sent)
    /\ UNCHANGED <<mcp, search, filemeta, backlinks, contents, pending, queue, filemeta_cache,
                   worker, env, resolver>>

\* self.pending.insert(doc_id, Instant::now())
CallerInsert(c) ==
    /\ c \in BagToSet(callers)
    /\ c.pc = "insert"
    /\ pending' = Put(pending, c.doc, 0)
    /\ callers' = IF ShouldSend(c.already)
                  THEN BagAdd(BagRemove(callers, c), [c EXCEPT !.pc = "send"])
                  ELSE BagRemove(callers, c)
    /\ obs' = NoObs(obs.unseen, obs.sent)
    /\ UNCHANGED <<mcp, search, filemeta, backlinks, contents, queue, filemeta_cache, worker, env, resolver>>

\* the receiver of the channel is dropped with the worker task
ChannelClosed(w) == w.pc = "ended"

\* self.index_tx.send(doc_id).await: waits while the channel is full; on a
\* closed channel it returns Err, which is logged
CallerSend(c) ==
    /\ c \in BagToSet(callers)
    /\ c.pc = "send"
    /\ IF ChannelClosed(worker)
       THEN /\ queue' = queue
            /\ obs' = [NoObs(obs.unseen, obs.sent) EXCEPT !.log = "send failed"]
       ELSE /\ Len(queue) < ChannelCapacity
            /\ queue' = Append(queue, c.doc)
            /\ obs' = NoObs(obs.unseen,
                            IF c.late THEN obs.sent
                            ELSE [obs.sent EXCEPT ![c.doc] = Min(@ + 1, 2)])
    /\ callers' = BagRemove(callers, c)
    /\ UNCHANGED <<mcp, search, filemeta, backlinks, contents, pending, filemeta_cache, worker, env, resolver>>

----------------------------------------------------------------------------
(* LinkIndexer::run_worker *)

\* is_ready: the entry exists and is at least DEBOUNCE_DURATION old
is_ready(p, doc_id) ==
    IF doc_id \in DOMAIN p THEN p[doc_id] >= DEBOUNCE_DURATION ELSE FALSE

\* the ages of the pending entries after `secs` seconds (an age beyond the
\* debounce window is kept at the window)
Elapse(p, secs) == [d \in DOMAIN p |-> Min(p[d] + secs, DEBOUNCE_DURATION)]

\* a worker that debounces every dequeued doc_id
Debounced_always(folder_content) == TRUE

\* `if folder_content.is_none()`: only a doc_id that is not a folder document
\* goes through the debounce loop
Debounced(folder_content) == folder_content = Absent

\* a queue that hands out its newest entry
Received_last(q) == q[Len(q)]

\* rx.recv() yields the oldest entry of the channel
Received(q) == Head(q)

\* rx.recv() and the first is_folder_doc
WorkerRecv ==
    /\ worker.pc = "recv"
    /\ queue # <<>>
    /\ queue' = Tail(queue)
    /\ LET doc_id == Received(queue)
           folder_content == is_folder_doc(doc_id, filemeta)
       IN worker' = [IdleWorker EXCEPT
                        !.pc = IF Debounced(folder_content) THEN "sleep" ELSE "folder",
                        !.doc_id = doc_id,
                        !.folder_content = folder_content]
    /\ obs' = NoObs(obs.unseen, obs.sent)
    /\ UNCHANGED <<mcp, search, filemeta, backlinks, contents, pending, filemeta_cache, callers, env, resolver>>

\* tokio::time::sleep(DEBOUNCE_DURATION).await: the worker is suspended while
\* the debounce window passes for everybody
WorkerSleep ==
    /\ worker.pc = "sleep"
    /\ pending' = Elapse(pending, DEBOUNCE_DURATION)
    /\ worker' = [worker EXCEPT !.pc = "wake"]
    /\ obs' = NoObs(obs.unseen, obs.sent)
    /\ UNCHANGED <<mcp, search, filemeta, backlinks, contents, queue, filemeta_cache, callers, env, resolver>>

\* after the sleep: leave the debounce loop or sleep again
WorkerWake ==
    /\ worker.pc = "wake"
    /\ worker' = IF is_ready(pending, worker.doc_id)
                    \/ ~PendingContains(pending, worker.doc_id)
                 THEN [worker EXCEPT !.pc = "post",
                                     !.ready = is_ready(pending, worker.doc_id)]
                 ELSE [worker EXCEPT !.pc = "sleep"]
    /\ obs' = NoObs(obs.unseen, obs.sent)
    /\ UNCHANGED <<mcp, search, filemeta, backlinks, contents, pending, queue, filemeta_cache,
                   callers, env, resolver>>

\* after the debounce loop: skip when the entry is gone, else re-check the
\* folder status
WorkerPost ==
    /\ worker.pc = "post"
    /\ worker' = IF ~PendingContains(pending, worker.doc_id)
                 THEN IdleWorker
                 ELSE LET folder_content == is_folder_doc(worker.doc_id, filemeta)
                      IN IF folder_content # Absent
                         THEN [worker EXCEPT !.pc = "folder",
                                             !.folder_content = folder_content]
                         ELSE [worker EXCEPT !.pc = "index"]
    /\ obs' = NoObs(obs.unseen, obs.sent)
    /\ UNCHANGED <<mcp, search, filemeta, backlinks, contents, pending, queue, filemeta_cache,
                   callers, env, resolver>>

\* the transactions index_document commits: one per folder whose backlinks change
IndexTxns(bls, new_bls) ==
    {Transaction(MkDocId(Relay, f), IndexerOrigin, "indexer") :
        f \in {g \in FolderUuids : new_bls[g] # bls[g]}}

\* the transactions apply_rename_updates commits: one per rewritten document
RenameTxns(cs, new_cs) ==
    {Transaction(MkDocId(Relay, u), IndexerOrigin, "indexer") :
        u \in {v \in DOMAIN cs : new_cs[v] # cs[v]}}

\* index_document on doc_id, with the callback of every transaction it commits
IndexPass(doc_id) ==
    LET r == index_document(doc_id, filemeta, backlinks, contents)
    IN /\ backlinks' = r.bls
       /\ callers' = callers (+) Spawned(IndexTxns(backlinks, r.bls))
       /\ obs' = [NoObs(obs.unseen \ {doc_id}, obs.sent) EXCEPT
                     !.txns = IndexTxns(backlinks, r.bls),
                     !.indexed = IF r.ok THEN parse_doc_id(doc_id)[2] ELSE None]
       /\ UNCHANGED <<mcp, search, filemeta, contents, filemeta_cache, resolver>>

\* a worker that ends its loop when index_document returns Err
AfterIndex_stop_on_err(r) ==
    IF r.stuck THEN "blocked" ELSE IF r.ok THEN "mark" ELSE "ended"

\* where the worker is after index_document: Ok and Err are both logged and
\* lead to mark_indexed; a call that does not return leaves the worker in it
AfterIndex(r) == IF r.stuck THEN "blocked" ELSE "mark"

\* the content branch: index_document
WorkerIndex ==
    /\ worker.pc = "index"
    /\ IndexPass(worker.doc_id)
    /\ worker' = [worker EXCEPT
                     !.pc = AfterIndex(index_document(worker.doc_id, filemeta,
                                                      backlinks, contents))]
    /\ UNCHANGED <<mcp, search, pending, queue, env, resolver>>

\* the loaded content documents among content_uuids, as doc_ids
RequeueList(doc_id, content_uuids, cs) ==
    LET relay_id == parse_doc_id(doc_id)[1]
        ids == [i \in DOMAIN content_uuids |-> MkDocId(relay_id, content_uuids[i])]
    IN SelectSeq(ids, LAMBDA d : DocsContainsKey(d, cs))

\* a folder doc branch that re-queues after renames as well
SkipRequeue_never(had_renames) == FALSE

\* the folder doc branch reaches the re-queue loop only without renames
SkipRequeue(had_renames) == had_renames

\* apply_rename_updates on folder_doc_id with the renames taken in the order
\* `renames`, and the callback of every transaction it commits
RenamePass(folder_doc_id, renames) ==
    LET dr == detect_renames(folder_doc_id, filemeta[folder_doc_id[2]], filemeta_cache)
        ar == apply_rename_updates(folder_doc_id, renames, backlinks, contents)
    IN /\ renames \in Orders(dr.renames)
       /\ contents' = ar.cs
       /\ filemeta_cache' = dr.cache
       /\ callers' = callers (+) Spawned(RenameTxns(contents, ar.cs))
       /\ obs' = [NoObs(obs.unseen \ {folder_doc_id}, obs.sent) EXCEPT
                     !.txns = RenameTxns(contents, ar.cs),
                     !.renames = [ran |-> TRUE, folder |-> folder_doc_id[2],
                                  had |-> ar.had, events |-> renames,
                                  prev |-> IF folder_doc_id \in DOMAIN filemeta_cache
                                           THEN Some(filemeta_cache[folder_doc_id])
                                           ELSE Absent,
                                  before |-> contents]]
       /\ UNCHANGED <<mcp, search, filemeta, backlinks, resolver>>

\* the folder branch: apply_rename_updates, then decide about the re-queue
WorkerFolder ==
    /\ worker.pc = "folder"
    /\ \E renames \in Orders(detect_renames(worker.doc_id,
                                 filemeta[worker.doc_id[2]], filemeta_cache).renames) :
          /\ RenamePass(worker.doc_id, renames)
          /\ LET todo == IF SkipRequeue(obs'.renames.had) THEN <<>>
                         ELSE RequeueList(worker.doc_id, worker.folder_content, contents)
             IN worker' = [worker EXCEPT
                              !.pc = IF todo = <<>> THEN "mark" ELSE "rq_check",
                              !.had_renames = obs'.renames.had,
                              !.todo = todo]
    /\ UNCHANGED <<mcp, search, pending, queue, env, resolver>>

AfterRequeue(w) ==
    [w EXCEPT !.todo = Tail(w.todo),
              !.pc = IF Tail(w.todo) = <<>> THEN "mark" ELSE "rq_check"]

\* self.on_document_update(&content_id).await inside the worker: contains_key
WorkerRequeueCheck ==
    /\ worker.pc = "rq_check"
    /\ worker' = [worker EXCEPT
                     !.pc = "rq_insert",
                     !.already = PendingContains(pending, Head(worker.todo)),
                     !.called = @ \cup {Head(worker.todo)}]
    /\ obs' = NoObs(obs.unseen \cup {Head(worker.todo)}, obs.sent)
    /\ UNCHANGED <<mcp, search, filemeta, backlinks, contents, pending, queue, filemeta_cache,
                   callers, env, resolver>>

\* ... pending.insert
WorkerRequeueInsert ==
    /\ worker.pc = "rq_insert"
    /\ pending' = Put(pending, Head(worker.todo), 0)
    /\ worker' = IF ShouldSend(worker.already)
                 THEN [worker EXCEPT !.pc = "rq_send"]
                 ELSE AfterRequeue(worker)
    /\ obs' = NoObs(obs.unseen, obs.sent)
    /\ UNCHANGED <<mcp, search, filemeta, backlinks, contents, queue, filemeta_cache, callers, env, resolver>>

\* ... index_tx.send(..).await
WorkerRequeueSend ==
    /\ worker.pc = "rq_send"
    /\ Len(queue) < ChannelCapacity
    /\ queue' = Append(queue, Head(worker.todo))
    /\ worker' = AfterRequeue(worker)
    /\ obs' = NoObs(obs.unseen,
                    [obs.sent EXCEPT ![Head(worker.todo)] = Min(@ + 1, 2)])
    /\ UNCHANGED <<mcp, search, filemeta, backlinks, contents, pending, filemeta_cache, callers, env, resolver>>

\* mark_indexed: pending.remove(doc_id)
mark_indexed(p, doc_id) == Del(p, doc_id)

WorkerMark ==
    /\ worker.pc = "mark"
    /\ pending' = mark_indexed(pending, worker.doc_id)
    /\ worker' = IdleWorker
    /\ callers' = BagOfAll(LAMBDA c : IF c.doc = worker.doc_id
                                       THEN [c EXCEPT !.late = TRUE] ELSE c,
                            callers)
    /\ obs' = [NoObs(obs.unseen, [obs.sent EXCEPT ![worker.doc_id] = 0]) EXCEPT
                  !.marked = Some(worker.doc_id)]
    /\ UNCHANGED <<mcp, search, filemeta, backlinks, contents, queue, filemeta_cache, env, resolver>>

----------------------------------------------------------------------------
(* The system *)

\* the folder whose metadata the clients change while the worker runs
LiveFolder == "fA"

\* the file the clients rename, move or delete while the worker runs: the
\* one the loaded document links to
LiveTarget == "u2"
LivePaths == {p \in DOMAIN filemeta[LiveFolder] : filemeta[LiveFolder][p] = LiveTarget}

\* the texts the clients leave in a document while the worker runs
LiveChoices == {<<>>, <<Link("Foo", "")>>}

Env ==
    \/ \E u \in ContentUuids, c \in LiveChoices : EditContent(u, c)
    \/ \E p \in LivePaths, b \in Basenames : RenameFile(LiveFolder, p, b)
    \/ \E p \in LivePaths, d \in Dirs : MoveFile(LiveFolder, p, d)
    \/ \E p \in LivePaths : RemoveFile(LiveFolder, p)
    \/ \E p \in Paths, u \in ContentUuids : AddFile(LiveFolder, p, u)

Callers ==
    \E c \in BagToSet(callers) : CallerCheck(c) \/ CallerInsert(c) \/ CallerSend(c)

Worker ==
    \/ WorkerRecv
    \/ WorkerSleep
    \/ WorkerWake
    \/ WorkerPost
    \/ WorkerIndex
    \/ WorkerFolder
    \/ WorkerRequeueCheck
    \/ WorkerRequeueInsert
    \/ WorkerRequeueSend
    \/ WorkerMark

Next == Env \/ Callers \/ Worker

Spec == Init /\ [][Next]_vars

----------------------------------------------------------------------------
(* The passes one at a time: clients change documents, and the worker's      *)
(* index pass or folder pass runs to completion on one document              *)

SeqBudget == env.edits + env.metas < MaxSeqOps

SeqEdit(u, c) ==
    /\ SeqBudget
    /\ ClientEdit(u, c)
    /\ UNCHANGED callers

SeqRename(f, p, b) == SeqBudget /\ ClientRename(f, p, b) /\ UNCHANGED callers
SeqMove(f, p, d) == SeqBudget /\ ClientMove(f, p, d) /\ UNCHANGED callers
SeqRemove(f, p) == SeqBudget /\ ClientRemove(f, p) /\ UNCHANGED callers
SeqAdd(f, p, u) == SeqBudget /\ ClientAdd(f, p, u) /\ UNCHANGED callers

\* index_document(u) as the worker runs it on a dequeued content doc_id
SeqIndex(u) ==
    /\ u \in DOMAIN contents
    /\ IndexPass(MkDocId(Relay, u))
    /\ UNCHANGED <<mcp, search, pending, queue, worker, env, resolver>>

\* apply_rename_updates(f) as the worker runs it on a dequeued folder doc_id
SeqFolder(f) ==
    /\ is_folder_doc(MkDocId(Relay, f), filemeta) # Absent
    /\ \E renames \in Orders(detect_renames(MkDocId(Relay, f), filemeta[f],
                                            filemeta_cache).renames) :
          RenamePass(MkDocId(Relay, f), renames)
    /\ UNCHANGED <<mcp, search, pending, queue, worker, env, resolver>>

\* the texts of the sequential runs: also one that links to two files
SeqContentChoices == ContentChoices \cup {<<Link("Foo", ""), Link("Bar", "")>>}

SeqNext ==
    \/ \E u \in ContentUuids, c \in SeqContentChoices : SeqEdit(u, c)
    \/ \E f \in FolderUuids, p \in Paths, b \in Basenames : SeqRename(f, p, b)
    \/ \E f \in FolderUuids, p \in Paths, d \in Dirs : SeqMove(f, p, d)
    \/ \E f \in FolderUuids, p \in Paths : SeqRemove(f, p)
    \/ \E f \in FolderUuids, p \in Paths, u \in ContentUuids : SeqAdd(f, p, u)
    \/ \E u \in ContentUuids : SeqIndex(u)
    \/ \E f \in FolderUuids : SeqFolder(f)

\* the server with two loaded content documents
SeqInit == InitWith({"u1", "u2"})

SpecSeq == SeqInit /\ [][SeqNext]_vars

----------------------------------------------------------------------------
(* Short runs: the same server and the same passes with a few client        *)
(* operations of any kind                                                   *)

MaxShortOps == 2

ShortBudget == env.edits + env.metas < MaxShortOps

\* a client operation of a short run, with the notification task it spawns
ShortEdit(u, c) ==
    ShortBudget /\ ClientEdit(u, c) /\ callers' = callers (+) Spawned(obs'.txns)
ShortRename(f, p, b) ==
    ShortBudget /\ ClientRename(f, p, b) /\ callers' = callers (+) Spawned(obs'.txns)
ShortMove(f, p, d) ==
    ShortBudget /\ ClientMove(f, p, d) /\ callers' = callers (+) Spawned(obs'.txns)
ShortRemove(f, p) ==
    ShortBudget /\ ClientRemove(f, p) /\ callers' = callers (+) Spawned(obs'.txns)
ShortAdd(f, p, u) ==
    ShortBudget /\ ClientAdd(f, p, u) /\ callers' = callers (+) Spawned(obs'.txns)

ShortNext ==
    \/ \E u \in ContentUuids, c \in LiveChoices : ShortEdit(u, c)
    \/ \E p \in LivePaths, b \in Basenames : ShortRename(LiveFolder, p, b)
    \/ \E p \in LivePaths, d \in Dirs : ShortMove(LiveFolder, p, d)
    \/ \E p \in LivePaths : ShortRemove(LiveFolder, p)
    \/ \E p \in Paths, u \in ContentUuids : ShortAdd(LiveFolder, p, u)
    \/ Callers
    \/ Worker

SpecShort == Init /\ [][ShortNext]_vars

\* a client operation between sequential passes of a short run
ShortSeqEdit(u, c) == ShortBudget /\ ClientEdit(u, c) /\ UNCHANGED callers
ShortSeqRename(f, p, b) == ShortBudget /\ ClientRename(f, p, b) /\ UNCHANGED callers
ShortSeqMove(f, p, d) == ShortBudget /\ ClientMove(f, p, d) /\ UNCHANGED callers
ShortSeqRemove(f, p) == ShortBudget /\ ClientRemove(f, p) /\ UNCHANGED callers
ShortSeqAdd(f, p, u) == ShortBudget /\ ClientAdd(f, p, u) /\ UNCHANGED callers

ShortSeqNext ==
    \/ \E u \in ContentUuids, c \in SeqContentChoices : ShortSeqEdit(u, c)
    \/ \E f \in FolderUuids, p \in Paths, b \in Basenames : ShortSeqRename(f, p, b)
    \/ \E f \in FolderUuids, p \in Paths, d \in Dirs : ShortSeqMove(f, p, d)
    \/ \E f \in FolderUuids, p \in Paths : ShortSeqRemove(f, p)
    \/ \E f \in FolderUuids, p \in Paths, u \in ContentUuids : ShortSeqAdd(f, p, u)
    \/ \E u \in ContentUuids : SeqIndex(u)
    \/ \E f \in FolderUuids : SeqFolder(f)

SpecSeqShort == SeqInit /\ [][ShortSeqNext]_vars

----------------------------------------------------------------------------
(* Startup: reindex_all_backlinks on the documents loaded from storage      *)

\* the folder metadata found in storage
StartupFilemetas ==
    {[f \in FolderUuids |-> IF f = "fA" THEN a
                            ELSE IF f = "fB" THEN b ELSE EmptyMap] :
        a \in {EmptyMap, InitFilemeta["fA"]},
        b \in {EmptyMap, Path("", "Bar") :> "u3"}}

\* the content documents found in storage, with their texts
StartupContents == UNION {[S -> LiveChoices] : S \in SUBSET ContentUuids}

\* the documents of the store in memory, the indexer and the resolver new
StoreInit(booted) ==
    /\ filemeta \in StartupFilemetas
    /\ contents \in StartupContents
    /\ backlinks = EmptyBacklinks
    /\ filemeta_cache = EmptyMap
    /\ pending = EmptyMap
    /\ queue = <<>>
    /\ search = SearchOff /\ mcp = NoMcp
    /\ callers = EmptyBag
    /\ worker = IdleWorker
    /\ env = [edits |-> 0, metas |-> 0, rename |-> NoRename,
            booted |-> booted]
    /\ obs = NoObs({}, [d \in DocIds |-> 0])
    /\ resolver = EmptyResolver

\* the server before startup_reindex
StartupInit == StoreInit(FALSE)

\* what a thread can get from RwLock::write on a lock it holds for reading
SelfLockOutcomes == {"deadlock", "panic"}

\* startup_reindex: reindex_all_backlinks(&self.docs), with docs.iter() in any
\* order, and after its return doc_resolver.rebuild; the writes of the passes
\* carry the indexer's origin and spawn no on_document_update
StartupReindex ==
    /\ ~obs.startup.ran
    /\ ~env.booted
    /\ \E order \in Orders(LoadedDocIds(contents)), stuck \in SelfLockOutcomes :
          LET r == reindex_all_backlinks(filemeta, backlinks, contents,
                                         filemeta_cache, order)
          IN /\ backlinks' = r.bls
             /\ filemeta_cache' = r.cache
             /\ callers' = callers (+) Spawned(IndexTxns(backlinks, r.bls))
             /\ obs' = [NoObs(obs.unseen, obs.sent) EXCEPT
                           !.txns = IndexTxns(backlinks, r.bls),
                           !.startup = [ran |-> TRUE,
                                        outcome |-> IF r.returned THEN "returned"
                                                    ELSE stuck,
                                        indexed |-> r.indexed]]
             /\ resolver' = IF r.returned
                            THEN rebuild(filemeta,
                                         [f \in FolderUuids |-> Iter(filemeta[f])])
                            ELSE resolver
             /\ env' = [env EXCEPT !.booted = r.returned]
    /\ UNCHANGED <<mcp, search, filemeta, contents, pending, queue, worker>>

StartupNext == StartupReindex

SpecStartup == StartupInit /\ [][StartupNext]_vars

----------------------------------------------------------------------------
(* The resolver on its own: clients change the folder metadata, and the     *)
(* resolver is rebuilt or updated for one folder                            *)

MaxResolverOps == 2

ResolverBudget == env.metas < MaxResolverOps

ResolverRename(f, p, b) == ResolverBudget /\ ClientRename(f, p, b) /\ UNCHANGED callers
ResolverMove(f, p, d) == ResolverBudget /\ ClientMove(f, p, d) /\ UNCHANGED callers
ResolverRemove(f, p) == ResolverBudget /\ ClientRemove(f, p) /\ UNCHANGED callers
ResolverAdd(f, p, u) == ResolverBudget /\ ClientAdd(f, p, u) /\ UNCHANGED callers

\* the orders in which filemeta.iter() can yield the entries of each folder
FolderOrders(fms) ==
    {o \in [FolderUuids -> UNION {Orders(DOMAIN fms[f]) : f \in FolderUuids}] :
        \A f \in FolderUuids : o[f] \in Orders(DOMAIN fms[f])}

\* the position of folder f among the sorted folder documents
FolderIndex(f, fms) ==
    Cardinality({i \in DOMAIN find_all_folder_docs(fms) :
                    \E j \in DOMAIN find_all_folder_docs(fms) :
                        i < j /\ find_all_folder_docs(fms)[j] = f})

\* doc_resolver.rebuild(&docs)
ResolverRebuild ==
    /\ \E orders \in FolderOrders(filemeta) : resolver' = rebuild(filemeta, orders)
    /\ obs' = [NoObs(obs.unseen, obs.sent) EXCEPT
                  !.resolved = [op |-> "rebuild", folder |-> None]]
    /\ UNCHANGED <<mcp, search, filemeta, backlinks, contents, pending, queue, filemeta_cache,
                   callers, worker, env>>

\* doc_resolver.update_folder(f, index of f, &docs)
ResolverUpdateFolder(f) ==
    /\ \E order \in Orders(DOMAIN filemeta[f]) :
          resolver' = update_folder(resolver, MkDocId(Relay, f),
                                    FolderIndex(f, filemeta), filemeta, order)
    /\ obs' = [NoObs(obs.unseen, obs.sent) EXCEPT
                  !.resolved = [op |-> "update_folder", folder |-> f]]
    /\ UNCHANGED <<mcp, search, filemeta, backlinks, contents, pending, queue, filemeta_cache,
                   callers, worker, env>>

ResolverNext ==
    \/ \E f \in FolderUuids, p \in Paths, b \in Basenames : ResolverRename(f, p, b)
    \/ \E f \in FolderUuids, p \in Paths, d \in Dirs : ResolverMove(f, p, d)
    \/ \E f \in FolderUuids, p \in Paths : ResolverRemove(f, p)
    \/ \E f \in FolderUuids, p \in Paths, u \in ContentUuids : ResolverAdd(f, p, u)
    \/ ResolverRebuild
    \/ \E f \in FolderUuids : ResolverUpdateFolder(f)

\* the stored folder metadata, no content document loaded, an empty resolver
ResolverInit ==
    /\ StoreInit(TRUE)
    /\ contents = EmptyMap

SpecResolver == ResolverInit /\ [][ResolverNext]_vars

----------------------------------------------------------------------------
(* From startup to the running server: startup_reindex, then connections    *)

\* the stored folder metadata and one stored content document
BootInit ==
    /\ StartupInit
    /\ contents = InitContents({"u1"})

\* startup_reindex runs before the server accepts connections; a startup
\* that does not return leaves the server without clients
BootNext ==
    \/ StartupReindex
    \/ ShortNext

SpecBoot == BootInit /\ [][BootNext]_vars

----------------------------------------------------------------------------
(* Passes that fail: updates of documents the indexer cannot index          *)

\* documents whose update reaches the worker without being indexable: one
\* with a key that parse_doc_id rejects, and a content document that is no
\* longer in docs when its pass runs
OddDocIds == {BadDocId} \cup {MkDocId(Relay, u) : u \in ContentUuids \ {"u1"}}

\* a client update of such a document: the callback spawns
\* on_document_update, and no text of a loaded document changes
TouchOdd(d) ==
    /\ env.booted
    /\ ShortBudget
    /\ parse_doc_id(d) # Absent => parse_doc_id(d)[2] \notin DOMAIN contents
    /\ env' = [env EXCEPT !.edits = @ + 1, !.rename = NoRename]
    /\ obs' = [NoObs(obs.unseen, obs.sent) EXCEPT
                  !.txns = {Transaction(d, UserOrigin, "user")}]
    /\ callers' = callers (+) Spawned(obs'.txns)
    /\ search' = SearchNotified(search, Transaction(d, UserOrigin, "user"))
    /\ UNCHANGED <<mcp, filemeta, backlinks, contents, pending, queue, filemeta_cache,
                   worker, resolver>>

FailingNext ==
    \/ ShortNext
    \/ \E d \in OddDocIds : TouchOdd(d)

\* the server at rest with one loaded content document, with the folder of
\* Init or with no folder document that lists a file
FailingInit ==
    /\ filemeta \in {InitFilemeta, [f \in FolderUuids |-> EmptyMap]}
    /\ contents = InitContents({"u1"})
    /\ backlinks = IndexedState(filemeta, contents).bls
    /\ filemeta_cache = IndexedState(filemeta, contents).cache
    /\ pending = EmptyMap
    /\ queue = <<>>
    /\ search = SearchOff /\ mcp = NoMcp
    /\ callers = EmptyBag
    /\ worker = IdleWorker
    /\ env = [edits |-> 0, metas |-> 0, rename |-> NoRename,
            booted |-> TRUE]
    /\ obs = NoObs({}, [d \in DocIds |-> 0])
    /\ resolver = EmptyResolver

SpecFailing == FailingInit /\ [][FailingNext]_vars

----------------------------------------------------------------------------
(* SpecCrash: the worker task panics in index_document and ends             *)

MaxCrashOps == 3

CrashBudget == env.edits + env.metas < MaxCrashOps

\* a client update of a folder document that leaves filemeta_v0 as it is
TouchFolder(f) ==
    /\ env.booted
    /\ CrashBudget
    /\ env' = [env EXCEPT !.edits = @ + 1, !.rename = NoRename]
    /\ obs' = [NoObs(obs.unseen, obs.sent) EXCEPT
                  !.txns = {Transaction(MkDocId(Relay, f), UserOrigin, "user")}]
    /\ callers' = callers (+) Spawned(obs'.txns)
    /\ search' = SearchNotified(search, Transaction(MkDocId(Relay, f), UserOrigin, "user"))
    /\ UNCHANGED <<mcp, filemeta, backlinks, contents, pending, queue, filemeta_cache,
                   worker, resolver>>

CrashEdit(u, c) ==
    CrashBudget /\ ClientEdit(u, c) /\ callers' = callers (+) Spawned(obs'.txns)
CrashAdd(f, p, u) ==
    CrashBudget /\ ClientAdd(f, p, u) /\ callers' = callers (+) Spawned(obs'.txns)

\* RwLock::write on the lock the worker holds for reading panics instead of
\* blocking: the task unwinds out of run_worker
WorkerPanic ==
    /\ worker.pc = "blocked"
    /\ worker' = [worker EXCEPT !.pc = "panicked"]
    /\ obs' = NoObs(obs.unseen, obs.sent)
    /\ UNCHANGED <<mcp, search, filemeta, backlinks, contents, pending, queue, filemeta_cache,
                   callers, env, resolver>>

\* a supervisor that starts run_worker again
AfterExit_restarted(w) == IdleWorker

\* the spawned task returns after its log line; nothing spawns another one
AfterExit(w) == [w EXCEPT !.pc = "ended"]

\* the task spawned in Server::new: catch_unwind yields Err, the CRITICAL line
\* is logged and the future is dropped, the receiver of the channel with it
WorkerExit ==
    /\ worker.pc = "panicked"
    /\ worker' = AfterExit(worker)
    /\ queue' = <<>>
    /\ obs' = [NoObs(obs.unseen, obs.sent) EXCEPT !.log = "CRITICAL"]
    /\ UNCHANGED <<mcp, search, filemeta, backlinks, contents, pending, filemeta_cache,
                   callers, env, resolver>>

\* the client operations of these runs: updates of the folder documents fA
\* and fB, a file added to fB, and the text of a document emptied
CrashFolders == {"fA", "fB"}
CrashNext ==
    \/ \E f \in CrashFolders : TouchFolder(f)
    \/ \E u \in ContentUuids : CrashEdit(u, <<>>)
    \/ \E p \in Paths, u \in ContentUuids : CrashAdd("fB", p, u)
    \/ Callers
    \/ Worker
    \/ WorkerPanic
    \/ WorkerExit

SpecCrash == Init /\ [][CrashNext]_vars

----------------------------------------------------------------------------
(* The running server with MCP tool calls: dispatch_tool ahead of a tool    *)
(* that reads the resolver                                                  *)

\* dispatch_tool for the glob tool: the lazy rebuild of an empty resolver,
\* then glob::execute, which reads all_paths() and changes nothing
DispatchTool ==
    /\ \E orders \in FolderOrders(filemeta) :
          resolver' = IF all_paths(resolver) = {} THEN rebuild(filemeta, orders)
                      ELSE resolver
    /\ obs' = [NoObs(obs.unseen, obs.sent) EXCEPT
                  !.resolved = [op |-> "dispatch_tool", folder |-> None]]
    /\ UNCHANGED <<mcp, search, filemeta, backlinks, contents, pending, queue, filemeta_cache,
                   callers, worker, env>>

ToolsNext ==
    \/ ShortNext
    \/ DispatchTool

SpecTools == Init /\ [][ToolsNext]_vars

----------------------------------------------------------------------------
(* SpecLinks: one index pass over stores whose paths differ in case *)

MaxLinkFiles == 2

LinkBasenames == {"Foo", "foo"}
LinkPaths == [dir : Dirs, base : LinkBasenames]
LinkSlots == {"fA", "fB"} \X LinkPaths

\* at most MaxLinkFiles files, each with its own uuid
LinkAssignments ==
    {a \in UNION {[S -> ContentUuids] :
                     S \in {T \in SUBSET LinkSlots : Cardinality(T) <= MaxLinkFiles}} :
        \A x, y \in DOMAIN a : a[x] = a[y] => x = y}

LinkStores ==
    {[f \in FolderUuids |->
        [p \in {q \in LinkPaths : <<f, q>> \in DOMAIN a} |-> a[<<f, p>>]]] :
     a \in LinkAssignments}

\* the texts of the source document u1: one wikilink, or a wikilink after
\* wikilink syntax in an inline code span or in a fenced code block
LinkTexts ==
    { <<Link("Foo", "")>>, <<Link("foo", "")>>, <<Link("Bar", "")>>,
      <<CodeLink("Foo")>>,
      <<CodeLink("Foo"), Link("foo", "")>>,
      <<FenceLink("foo"), Link("Foo", "")>> }

LinksInit ==
    /\ filemeta \in LinkStores
    /\ contents \in {[u \in {"u1"} |-> t] : t \in LinkTexts}
    /\ backlinks = EmptyBacklinks
    /\ filemeta_cache = EmptyMap
    /\ pending = EmptyMap
    /\ queue = <<>>
    /\ search = SearchOff /\ mcp = NoMcp
    /\ callers = EmptyBag
    /\ worker = IdleWorker
    /\ env = [edits |-> 0, metas |-> 0, rename |-> NoRename,
            booted |-> TRUE]
    /\ obs = NoObs({}, [d \in DocIds |-> 0])
    /\ resolver = EmptyResolver

LinksNext == \E u \in ContentUuids : SeqIndex(u)

SpecLinks == LinksInit /\ [][LinksNext]_vars

----------------------------------------------------------------------------
(* SpecStarve: a client keeps typing in one document while the wake-up of   *)
(* another one waits in the queue                                           *)

MaxStarveEdits == 1

TypedDoc == "u1"
WaitingDoc == "u2"

\* one more keystroke in TypedDoc: any number of them, one callback at a time
KeepTyping(c) ==
    /\ env.booted
    /\ \A x \in BagToSet(callers) : x.doc # MkDocId(Relay, TypedDoc)
    /\ c # contents[TypedDoc]
    /\ contents' = [contents EXCEPT ![TypedDoc] = c]
    /\ obs' = [NoObs(obs.unseen, obs.sent) EXCEPT
                  !.txns = {Transaction(MkDocId(Relay, TypedDoc), UserOrigin, "user")}]
    /\ callers' = callers (+) Spawned(obs'.txns)
    /\ search' = SearchNotified(search, Transaction(MkDocId(Relay, TypedDoc), UserOrigin, "user"))
    /\ UNCHANGED <<mcp, filemeta, backlinks, pending, queue, filemeta_cache, worker,
                   env, resolver>>

\* an edit of WaitingDoc
EditWaiting(c) ==
    /\ env.edits < MaxStarveEdits
    /\ ClientEdit(WaitingDoc, c)
    /\ callers' = callers (+) Spawned(obs'.txns)

\* a file is added to the folder that lists the two documents
AddBeside(p) ==
    /\ env.metas < MaxStarveEdits
    /\ ClientAdd(LiveFolder, p, "u3")
    /\ callers' = callers (+) Spawned(obs'.txns)

StarveTexts == {<<>>, <<Link("Foo", "")>>}

StarveNext ==
    \/ \E c \in StarveTexts : KeepTyping(c)
    \/ \E c \in StarveTexts : EditWaiting(c)
    \/ AddBeside(Path("", "Bar"))
    \/ Callers
    \/ Worker

\* the worker task and the spawned callbacks are scheduled again and again
SpecStarve ==
    SeqInit /\ [][StarveNext]_vars /\ WF_vars(Worker) /\ WF_vars(Callers)

----------------------------------------------------------------------------
(* SpecRewrite: update_wikilinks_in_doc on texts of a few tokens            *)

MaxTokens == 3

RewriteTokens ==
    { Link("Foo", ""), Link("Foo", "#Sec"), Link("Bar", "|Alias"),
      PathLink("Notes", "Foo"), CodeLink("Foo"), FenceLink("Foo"), Text("x") }

RewriteTexts == UNION {[1..n -> RewriteTokens] : n \in 0..MaxTokens}

\* (old_name, new_name) of the renames; one of them changes the length
RewriteRenamePairs == {<<"Foo", "Bar">>, <<"Foo", "Notes">>, <<"Bar", "Foo">>}

RewriteInit ==
    /\ filemeta = InitFilemeta
    /\ contents \in {[u \in {"u1"} |-> t] : t \in RewriteTexts}
    /\ backlinks = EmptyBacklinks
    /\ filemeta_cache = EmptyMap
    /\ pending = EmptyMap
    /\ queue = <<>>
    /\ search = SearchOff /\ mcp = NoMcp
    /\ callers = EmptyBag
    /\ worker = IdleWorker
    /\ env = [edits |-> 0, metas |-> 0, rename |-> NoRename,
            booted |-> TRUE]
    /\ obs = NoObs({}, [d \in DocIds |-> 0])
    /\ resolver = EmptyResolver

\* update_wikilinks_in_doc(&guard.doc, old_name, new_name) on the loaded
\* document u, under the document's write lock
UpdateWikilinks(u, old_name, new_name) ==
    /\ u \in DOMAIN contents
    /\ ~obs.rewrite.ran
    /\ LET r == update_wikilinks_in_doc(contents[u], old_name, new_name)
       IN /\ contents' = [contents EXCEPT ![u] = r.text]
          /\ obs' = [NoObs(obs.unseen, obs.sent) EXCEPT
                        !.txns = IF r.count = 0 THEN {}
                                 ELSE {Transaction(MkDocId(Relay, u),
                                                   IndexerOrigin, "indexer")},
                        !.rewrite = [ran |-> TRUE, uuid |-> u,
                                     old_name |-> old_name, new_name |-> new_name,
                                     before |-> contents[u], count |-> r.count]]
          /\ callers' = callers (+) Spawned(obs'.txns)
    /\ UNCHANGED <<mcp, search, filemeta, backlinks, pending, queue, filemeta_cache, worker,
                   env, resolver>>

RewriteNext ==
    \E u \in ContentUuids, rn \in RewriteRenamePairs : UpdateWikilinks(u, rn[1], rn[2])

SpecRewrite == RewriteInit /\ [][RewriteNext]_vars

----------------------------------------------------------------------------
(* SpecSearch: the server with a SearchIndex: the callback's try_send and    *)
(* search_worker next to the link indexer                                   *)

\* the ages of the search worker's entries after `secs` seconds
SearchElapse(p, secs) == [d \in DOMAIN p |-> Min(p[d] + secs, SEARCH_DEBOUNCE)]

\* search_handle_content_update: upsert of the document's body (the title
\* and folder fields of the index entry are left out of the model); a loaded
\* document without a "contents" text has the empty body
search_handle_content_update(doc_id, cs, index) ==
    IF parse_doc_id(doc_id) = Absent THEN index
    ELSE IF ~DocsContainsKey(doc_id, cs) THEN index
    ELSE LET doc_uuid == parse_doc_id(doc_id)[2]
         IN Put(index, doc_uuid, IF doc_uuid \in DOMAIN cs THEN cs[doc_uuid] ELSE <<>>)

RECURSIVE SearchUpsertAll(_, _, _)
SearchUpsertAll(uuids, cs, index) ==
    IF uuids = {} THEN index
    ELSE LET u == CHOOSE x \in uuids : TRUE
         IN SearchUpsertAll(uuids \ {u}, cs,
                            search_handle_content_update(MkDocId(Relay, u), cs, index))

RECURSIVE SearchRemoveAll(_, _)
SearchRemoveAll(uuids, index) ==
    IF uuids = {} THEN index
    ELSE LET u == CHOOSE x \in uuids : TRUE
         IN SearchRemoveAll(uuids \ {u}, IF u \in DOMAIN index THEN Del(index, u) ELSE index)

RECURSIVE SearchPendAll(_, _)
SearchPendAll(uuids, p) ==
    IF uuids = {} THEN p
    ELSE LET u == CHOOSE x \in uuids : TRUE
         IN SearchPendAll(uuids \ {u}, Put(p, MkDocId(Relay, u), 0))

\* search_handle_folder_update: the snapshot replaces the cached one; with
\* an old snapshot the vanished uuids leave the index and the added or
\* renamed loaded ones are put into pending and upserted at once; without
\* one every listed loaded document is upserted
search_handle_folder_update(folder_doc_id, content_uuids, fms, cs, s) ==
    LET current_map == CurrentSnapshot(fms[folder_doc_id[2]])
        loaded(uuids) == {u \in uuids : DocsContainsKey(MkDocId(Relay, u), cs)}
        cached == [s EXCEPT !.filemeta_cache = Put(@, folder_doc_id, current_map)]
    IN IF folder_doc_id \in DOMAIN s.filemeta_cache
       THEN LET old_map == s.filemeta_cache[folder_doc_id]
                removed == DOMAIN old_map \ DOMAIN current_map
                changed == loaded({u \in DOMAIN current_map :
                                     u \notin DOMAIN old_map \/ old_map[u] # current_map[u]})
            IN [cached EXCEPT
                   !.pending = SearchPendAll(changed, @),
                   !.index = SearchUpsertAll(changed, cs, SearchRemoveAll(removed, @))]
       ELSE [cached EXCEPT
                !.index = SearchUpsertAll(loaded(Range(content_uuids)), cs, @)]

\* rx.recv() and is_folder_doc: a content document goes to the debounce loop
SearchRecv ==
    /\ search.tx
    /\ search.pc = "recv"
    /\ search.queue # <<>>
    /\ LET doc_id == Head(search.queue)
           folder_content == is_folder_doc(doc_id, filemeta)
       IN search' = [search EXCEPT
                        !.queue = Tail(@),
                        !.doc_id = doc_id,
                        !.folder_content = folder_content,
                        !.pc = IF folder_content = Absent THEN "sleep" ELSE "handle"]
    /\ obs' = NoObs(obs.unseen, obs.sent)
    /\ UNCHANGED <<mcp, filemeta, backlinks, contents, pending, queue, filemeta_cache,
                   callers, worker, env, resolver>>

\* tokio::time::sleep(SEARCH_DEBOUNCE).await
SearchSleep ==
    /\ search.pc = "sleep"
    /\ search' = [search EXCEPT !.pc = "wake",
                                !.pending = SearchElapse(@, SEARCH_DEBOUNCE),
                                !.since = SearchElapse(@, SEARCH_DEBOUNCE)]
    /\ obs' = NoObs(obs.unseen, obs.sent)
    /\ UNCHANGED <<mcp, filemeta, backlinks, contents, pending, queue, filemeta_cache,
                   callers, worker, env, resolver>>

\* after the sleep: the loop goes on only for an entry of pending that is
\* younger than SEARCH_DEBOUNCE, and ends when there is no entry
SearchWake ==
    /\ search.pc = "wake"
    /\ search' = IF search.doc_id \in DOMAIN search.pending
                 THEN IF search.pending[search.doc_id] >= SEARCH_DEBOUNCE
                      THEN [search EXCEPT !.pc = "handle"]
                      ELSE [search EXCEPT !.pc = "sleep"]
                 ELSE [search EXCEPT !.pc = "handle"]
    /\ obs' = NoObs(obs.unseen, obs.sent)
    /\ UNCHANGED <<mcp, filemeta, backlinks, contents, pending, queue, filemeta_cache,
                   callers, worker, env, resolver>>

\* folder_content.or_else(|| is_folder_doc(..))
SearchFolderContent ==
    IF search.folder_content # Absent THEN search.folder_content
    ELSE is_folder_doc(search.doc_id, filemeta)

\* pending.remove and search_handle_folder_update
SearchFolder ==
    /\ search.pc = "handle"
    /\ SearchFolderContent # Absent
    /\ search' = [search_handle_folder_update(
                      search.doc_id, SearchFolderContent, filemeta, contents,
                      [search EXCEPT !.pending =
                          IF search.doc_id \in DOMAIN @ THEN Del(@, search.doc_id) ELSE @])
                  EXCEPT !.pc = "recv", !.doc_id = Absent, !.folder_content = Absent]
    /\ obs' = NoObs(obs.unseen, obs.sent)
    /\ UNCHANGED <<mcp, filemeta, backlinks, contents, pending, queue, filemeta_cache,
                   callers, worker, env, resolver>>

\* pending.remove and search_handle_content_update of the dequeued document
SearchContent ==
    /\ search.pc = "handle"
    /\ SearchFolderContent = Absent
    /\ search' = [search EXCEPT
                     !.pending = IF search.doc_id \in DOMAIN @
                                 THEN Del(@, search.doc_id) ELSE @,
                     !.index = search_handle_content_update(search.doc_id, contents, @),
                     !.pc = "recv", !.doc_id = Absent, !.folder_content = Absent]
    /\ obs' = [NoObs(obs.unseen, obs.sent) EXCEPT
                  !.upsert = [ran |-> TRUE, doc |-> search.doc_id,
                              since |-> IF search.doc_id \in DOMAIN search.since
                                        THEN search.since[search.doc_id]
                                        ELSE SEARCH_DEBOUNCE]]
    /\ UNCHANGED <<mcp, filemeta, backlinks, contents, pending, queue, filemeta_cache,
                   callers, worker, env, resolver>>

SearchWorker ==
    \/ SearchRecv
    \/ SearchSleep
    \/ SearchWake
    \/ SearchFolder
    \/ SearchContent

\* the started server with one loaded content document and a SearchIndex
SearchInit ==
    /\ filemeta = InitFilemeta
    /\ contents = InitContents({"u1"})
    /\ backlinks = IndexedState(InitFilemeta, InitContents({"u1"})).bls
    /\ filemeta_cache = IndexedState(InitFilemeta, InitContents({"u1"})).cache
    /\ pending = EmptyMap
    /\ queue = <<>>
    /\ callers = EmptyBag
    /\ worker = IdleWorker
    /\ env = [edits |-> 0, metas |-> 0, rename |-> NoRename,
            booted |-> TRUE]
    /\ obs = NoObs({}, [d \in DocIds |-> 0])
    /\ resolver = EmptyResolver
    /\ search = SearchOn(InitContents({"u1"}))
    /\ mcp = NoMcp

SearchNext ==
    \/ ShortNext
    \/ SearchWorker

SpecSearch == SearchInit /\ [][SearchNext]_vars

----------------------------------------------------------------------------
(* SpecEdit: the MCP read and edit tools on a server whose documents have   *)
(* no change callback, with sessions and one other writer                   *)

MaxSessions == 2
MaxMcpOps == 4

McpBudget == env.edits + mcp.ops < MaxMcpOps

\* the words of the texts in this specification
EditWords == {Text("a"), Text("b")}

\* the file_path arguments: the two listed documents and a path that is not listed
EditPaths ==
    {FullPath("Lens", Path("", "Foo")), FullPath("Lens", Path("Notes", "Bar")),
     FullPath("Lens", Path("", "Bar"))}

\* the old_string arguments
OldStrings == {<<>>, <<Text("a")>>, <<Text("b")>>, <<Text("a"), Text("b")>>}

\* the new_string arguments
NewStrings == {<<>>, <<Text("b")>>}

\* the texts the other writer leaves
WriterTexts == {<<>>, <<Text("b"), Text("a")>>, <<Text("a"), Text("b"), Text("a")>>}

\* content.match_indices(old_string) from position `from`: the offsets of the
\* non-overlapping occurrences, left to right; the empty pattern matches at
\* every boundary
RECURSIVE MatchIndices(_, _, _)
MatchIndices(content, old_string, from) ==
    IF from + Len(old_string) > Len(content) THEN <<>>
    ELSE IF SubSeq(content, from + 1, from + Len(old_string)) = old_string
         THEN <<from>> \o MatchIndices(content, old_string,
                                      from + (IF old_string = <<>> THEN 1
                                              ELSE Len(old_string)))
         ELSE MatchIndices(content, old_string, from + 1)

\* the longest common prefix of two texts
RECURSIVE CommonPrefix(_, _)
CommonPrefix(a, b) ==
    IF a = <<>> \/ b = <<>> \/ Head(a) # Head(b) THEN <<>>
    ELSE <<Head(a)>> \o CommonPrefix(Tail(a), Tail(b))

Reverse(a) == [i \in 1..Len(a) |-> a[Len(a) + 1 - i]]

\* smart_critic_markup on words: equal words are emitted as they are, the
\* deleted ones inside {-- --} and the inserted ones inside {++ ++} (the
\* metadata prefix inside the markers is left out)
smart_critic_markup(old, new) ==
    LET pre == CommonPrefix(old, new)
        old_rest == SubSeq(old, Len(pre) + 1, Len(old))
        new_rest == SubSeq(new, Len(pre) + 1, Len(new))
        post == Reverse(CommonPrefix(Reverse(old_rest), Reverse(new_rest)))
        del_parts == SubSeq(old_rest, 1, Len(old_rest) - Len(post))
        ins_parts == SubSeq(new_rest, 1, Len(new_rest) - Len(post))
    IN pre
       \o (IF del_parts # <<>> THEN <<Text("{--")>> \o del_parts \o <<Text("--}")>> ELSE <<>>)
       \o (IF ins_parts # <<>> THEN <<Text("{++")>> \o ins_parts \o <<Text("++}")>> ELSE <<>>)
       \o post

\* step 3 of execute with a session check only
ReadBeforeEdit_any_session(sessions, session_id, doc_id) ==
    IF session_id \notin DOMAIN sessions THEN "Error: Session not found"
    ELSE "pass"

\* step 3 of edit::execute: the session must exist and hold doc_id in read_docs
ReadBeforeEdit(sessions, session_id, doc_id) ==
    IF session_id \notin DOMAIN sessions THEN "Error: Session not found"
    ELSE IF doc_id \notin sessions[session_id] THEN "You must read this document before editing it"
    ELSE "pass"

\* current_content.get(byte_offset..byte_offset + old_len)
ActualSlice(current_content, byte_offset, old_len) ==
    IF byte_offset + old_len > Len(current_content) THEN Absent
    ELSE Some(SubSeq(current_content, byte_offset + 1, byte_offset + old_len))

\* a write step that trusts the offset of the first read
Reverify_skipped(current_content, byte_offset, old_string) == TRUE

\* step 7 of edit::execute: actual_slice == Some(old_string)
Reverify(current_content, byte_offset, old_string) ==
    ActualSlice(current_content, byte_offset, Len(old_string)) = Some(old_string)

\* text.remove_range(byte_offset, old_len); text.insert(byte_offset, replacement)
\* (a range reaching beyond the text removes up to its end)
Replaced(current_content, byte_offset, old_len, replacement) ==
    SubSeq(current_content, 1, Min(byte_offset, Len(current_content)))
    \o replacement
    \o SubSeq(current_content, byte_offset + old_len + 1, Len(current_content))

\* the server of build_test_server: folder fA in the resolver, two loaded
\* content documents, a fresh SessionManager
EditInit ==
    /\ filemeta = InitFilemeta
    /\ contents = ("u1" :> <<Text("a"), Text("b")>>) @@ ("u2" :> <<Text("a")>>)
    /\ backlinks = EmptyBacklinks
    /\ filemeta_cache = EmptyMap
    /\ pending = EmptyMap
    /\ queue = <<>>
    /\ callers = EmptyBag
    /\ worker = IdleWorker
    /\ env = [edits |-> 0, metas |-> 0, rename |-> NoRename, booted |-> TRUE]
    /\ obs = NoObs({}, [d \in DocIds |-> 0])
    /\ resolver = rebuild_from_folder_doc(EmptyResolver, MkDocId(Relay, "fA"), 0,
                                          InitFilemeta["fA"], Iter(InitFilemeta["fA"]))
    /\ search = SearchOff
    /\ mcp = NoMcp

\* SessionManager::create_session: a fresh id with an empty read_docs
CreateSession ==
    /\ McpBudget
    /\ mcp.created < MaxSessions
    /\ mcp' = [mcp EXCEPT !.sessions = Put(@, mcp.created + 1, {}),
                          !.created = @ + 1, !.ops = @ + 1]
    /\ obs' = NoObs(obs.unseen, obs.sent)
    /\ UNCHANGED <<filemeta, backlinks, contents, pending, queue, filemeta_cache,
                   callers, worker, env, resolver, search>>

\* SessionManager::remove_session
RemoveSession(session_id) ==
    /\ McpBudget
    /\ session_id \in DOMAIN mcp.sessions
    /\ mcp' = [mcp EXCEPT !.sessions = Del(@, session_id), !.ops = @ + 1]
    /\ obs' = NoObs(obs.unseen, obs.sent)
    /\ UNCHANGED <<filemeta, backlinks, contents, pending, queue, filemeta_cache,
                   callers, worker, env, resolver, search>>

\* read::execute in a valid session: the path is resolved, the text is read,
\* and only then the document enters the session's read_docs
ReadTool(session_id, file_path) ==
    /\ McpBudget
    /\ session_id \in DOMAIN mcp.sessions
    /\ LET doc_info == resolve_path(resolver, file_path)
           completed == /\ doc_info # Absent
                        /\ DocsContainsKey(doc_info[1].doc_id, contents)
       IN mcp' = IF completed
                 THEN [mcp EXCEPT !.sessions[session_id] = @ \cup {doc_info[1].doc_id},
                                  !.reads = @ \cup {<<session_id, doc_info[1].doc_id>>},
                                  !.ops = @ + 1]
                 ELSE [mcp EXCEPT !.ops = @ + 1]
    /\ obs' = NoObs(obs.unseen, obs.sent)
    /\ UNCHANGED <<filemeta, backlinks, contents, pending, queue, filemeta_cache,
                   callers, worker, env, resolver, search>>

\* the outcome of steps 2 to 6 of edit::execute: an error, or the located edit
Located(session_id, file_path, old_string, new_string) ==
    LET doc_info == resolve_path(resolver, file_path)
        doc_id == IF doc_info = Absent THEN Absent ELSE doc_info[1].doc_id
        check == ReadBeforeEdit(mcp.sessions, session_id, doc_id)
        content == contents[doc_id[2]]
        matches == MatchIndices(content, old_string, 0)
        result == IF doc_info = Absent THEN "Error: Document not found"
                  ELSE IF check # "pass" THEN check
                  ELSE IF ~DocsContainsKey(doc_id, contents)
                       THEN "Error: Document data not loaded"
                  ELSE IF matches = <<>> THEN "Error: old_string not found"
                  ELSE IF Len(matches) > 1 THEN "Error: old_string is not unique"
                  ELSE "located"
    IN [pc |-> IF result = "located" THEN "write" ELSE "idle",
        session_id |-> session_id,
        existed |-> session_id \in DOMAIN mcp.sessions,
        doc_id |-> doc_id,
        result |-> result,
        old_string |-> old_string,
        byte_offset |-> IF result = "located" THEN matches[1] ELSE 0,
        replacement |-> IF result = "located"
                        THEN smart_critic_markup(old_string, new_string) ELSE <<>>]

\* edit::execute up to the end of step 6, called in some valid session with
\* any session_id argument
EditLocate(session_id, file_path, old_string, new_string) ==
    /\ McpBudget
    /\ DOMAIN mcp.sessions # {}
    /\ mcp.call.pc = "idle"
    /\ LET l == Located(session_id, file_path, old_string, new_string)
       IN /\ mcp' = [mcp EXCEPT !.ops = @ + 1,
                        !.call = IF l.pc = "write"
                                 THEN [pc |-> "write", session_id |-> l.session_id,
                                       existed |-> l.existed, doc_id |-> l.doc_id,
                                       old_string |-> l.old_string,
                                       byte_offset |-> l.byte_offset,
                                       replacement |-> l.replacement]
                                 ELSE NoCall]
          /\ obs' = [NoObs(obs.unseen, obs.sent) EXCEPT
                        !.edit = [ran |-> TRUE, step |-> "locate", session_id |-> session_id,
                                  existed |-> l.existed, doc_id |-> l.doc_id,
                                  result |-> l.result, old_string |-> old_string,
                                  byte_offset |-> l.byte_offset,
                                  replacement |-> l.replacement, before |-> contents]]
    /\ UNCHANGED <<filemeta, backlinks, contents, pending, queue, filemeta_cache,
                   callers, worker, env, resolver, search>>

\* step 7 of edit::execute: under the write lock the slice is checked again
\* and the edit applied, or the call ends with an error
EditWrite ==
    /\ mcp.call.pc = "write"
    /\ LET c == mcp.call
           doc_uuid == c.doc_id[2]
           current_content == contents[doc_uuid]
           ok == Reverify(current_content, c.byte_offset, c.old_string)
       IN /\ contents' = IF ok
                         THEN [contents EXCEPT ![doc_uuid] =
                                  Replaced(current_content, c.byte_offset,
                                           Len(c.old_string), c.replacement)]
                         ELSE contents
          /\ obs' = [NoObs(obs.unseen, obs.sent) EXCEPT
                        !.edit = [ran |-> TRUE, step |-> "write", session_id |-> c.session_id,
                                  existed |-> c.existed, doc_id |-> c.doc_id,
                                  result |-> IF ok THEN "Ok"
                                             ELSE "Document changed since last read",
                                  old_string |-> c.old_string,
                                  byte_offset |-> c.byte_offset,
                                  replacement |-> c.replacement, before |-> contents]]
    /\ mcp' = [mcp EXCEPT !.call = NoCall]
    /\ UNCHANGED <<filemeta, backlinks, pending, queue, filemeta_cache,
                   callers, worker, env, resolver, search>>

\* another writer commits a text to a loaded document
WriterEdit(u, c) ==
    /\ McpBudget
    /\ u \in DOMAIN contents
    /\ c # contents[u]
    /\ contents' = [contents EXCEPT ![u] = c]
    /\ env' = [env EXCEPT !.edits = @ + 1]
    /\ obs' = NoObs(obs.unseen, obs.sent)
    /\ UNCHANGED <<filemeta, backlinks, pending, queue, filemeta_cache,
                   callers, worker, resolver, search, mcp>>

EditNext ==
    \/ CreateSession
    \/ \E sid \in 1..MaxSessions : RemoveSession(sid)
    \/ \E sid \in 1..MaxSessions, fp \in EditPaths : ReadTool(sid, fp)
    \/ \E sid \in 1..MaxSessions, fp \in EditPaths, o \in OldStrings, n \in NewStrings :
          EditLocate(sid, fp, o, n)
    \/ EditWrite
    \/ \E u \in {"u1", "u2"}, c \in WriterTexts : WriterEdit(u, c)

SpecEdit == EditInit /\ [][EditNext]_vars

----------------------------------------------------------------------------
(* Properties *)

\* nothing is queued, no notification task is running, the worker waits in recv
Quiescent ==
    /\ worker.pc = "recv"
    /\ queue = <<>>
    /\ callers = EmptyBag

LoadedFolders == Range(find_all_folder_docs(filemeta))

\* the targets in folder f that the current text of su links to
ExpectedTargets(su, f) ==
    {r[1] : r \in {x \in Resolved(contents[su], find_all_folder_docs(filemeta),
                                  filemeta) : x[2] = f}}

IsBacklinker(su, f, t) == Contains(read_backlinks_array(backlinks[f], t), su)

\* C1: after index_document(S), in every loaded folder F and for every target
\* T, S is listed under T in F exactly when S's text has a wikilink that
\* resolves to T in F
C1_ExactAfterIndex ==
    obs.indexed # None =>
        \A f \in LoadedFolders, t \in ContentUuids :
            IsBacklinker(obs.indexed, f, t) <=> t \in ExpectedTargets(obs.indexed, f)

\* C2: once nothing is queued or running any more, no on_document_update call
\* is left that was not followed by a pass reading the document
C2_UpdateGetsPass ==
    Quiescent => obs.unseen = {}

\* C3: the on_document_update calls made since the last mark_indexed(d) have
\* put at most one wake-up for d on the queue
C3_SingleWakeup ==
    \A d \in DocIds : obs.sent[d] <= 1

\* C4: once the worker has drained its queue, every backlink list of a loaded
\* folder is exactly the set of loaded documents whose text links to the target
C4_EventuallyConsistent ==
    Quiescent =>
        \A f \in LoadedFolders, t \in ContentUuids :
            Range(read_backlinks_array(backlinks[f], t))
                = {su \in DOMAIN contents : t \in ExpectedTargets(su, f)}

\* the transactions the indexer committed in the last step carry the origin
\* "link-indexer" and their callback notified nobody
C5_IndexerTxnsSuppressed ==
    \A t \in obs.txns :
        t.by = "indexer" =>
            /\ t.origin = "link-indexer"
            /\ ~t.notify
            /\ ~t.search

\* C5: every transaction of the indexer carries the origin "link-indexer" and
\* its callback notifies neither the indexer nor the search worker; a worker
\* step that writes starts no on_document_update task and queues nothing
C5_NoSelfTrigger ==
    /\ []C5_IndexerTxnsSuppressed
    /\ [][(worker.pc \in {"index", "folder"} /\ worker' # worker)
            => (callers' = callers /\ queue' = queue /\ pending' = pending)]_vars

\* a transaction of the indexer was committed in the last step
C5_Witness ==
    \E t \in obs.txns : t.by = "indexer" /\ t.origin = IndexerOrigin

\* C6: indexing comes to an end: whenever the worker is not waiting on an
\* empty queue it can take its next step towards the idle state
C6_WorkerReachesIdle ==
    (worker.pc = "recv" /\ queue = <<>>) \/ ENABLED Worker

\* C7: when the file of target T was renamed while S, linking to the old name,
\* was listed under T, then after the queue has drained S links to the new
\* name and is still listed under T
C7_RenameKeepsBacklink ==
    (Quiescent /\ env.rename.sources # {}) =>
        \A su \in env.rename.sources :
            /\ HasLink(contents[su], env.rename.new_name)
            /\ IsBacklinker(su, env.rename.folder, env.rename.uuid)

\* C8: after a folder pass that processed renames, every loaded backlinker of
\* a renamed uuid has each wikilink to the old name turned into the same
\* wikilink to the new name (suffix kept)
C8_RenameRewrites ==
    (obs.renames.ran /\ obs.renames.had) =>
        \A i \in DOMAIN obs.renames.events :
            LET r == obs.renames.events[i]
                sources == Range(read_backlinks_array(backlinks[obs.renames.folder],
                                                      r.uuid)) \cap DOMAIN contents
            IN \A su \in sources :
                 /\ Len(contents[su]) = Len(obs.renames.before[su])
                 /\ \A k \in DOMAIN obs.renames.before[su] :
                      LET tok == obs.renames.before[su][k]
                      IN (tok.kind = "link" /\ tok.name = Path("", r.old_name))
                           => contents[su][k]
                                = [tok EXCEPT !.name = Path("", r.new_name)]

\* the basename under which folder metadata fm lists uuid u
BasenameOfUuid(fm, u) == (CHOOSE p \in DOMAIN fm : fm[p] = u).base

\* C9: detect_renames returns nothing on the first observation of a folder;
\* afterwards exactly one event (uuid, old basename, new basename) per uuid
\* that is in both snapshots with a different basename, and nothing else
C9_DetectRenames ==
    obs.renames.ran =>
        LET fm == filemeta[obs.renames.folder]
            ids == {fm[p] : p \in DOMAIN fm}
            ev == obs.renames.events
            expected == IF obs.renames.prev = Absent THEN {}
                        ELSE LET old == obs.renames.prev[1]
                             IN {[uuid |-> u, old_name |-> old[u],
                                  new_name |-> BasenameOfUuid(fm, u)] :
                                    u \in {x \in ids \cap DOMAIN old :
                                             old[x] # BasenameOfUuid(fm, x)}}
        IN /\ Range(ev) = expected
           /\ Len(ev) = Cardinality(expected)

\* a folder pass on a folder seen before has detected a rename
C9_Witness ==
    /\ obs.renames.ran
    /\ obs.renames.prev # Absent
    /\ obs.renames.events # <<>>

\* C10: at the end of a folder pass the worker has called on_document_update
\* for no document when renames were processed, and otherwise for exactly the
\* loaded documents the folder lists
C10_RequeuePolicy ==
    (worker.pc = "mark" /\ worker.folder_content # Absent) =>
        worker.called = IF worker.had_renames THEN {}
                        ELSE {MkDocId(Relay, u) :
                                u \in Range(worker.folder_content) \cap DOMAIN contents}

\* a folder pass without renames has re-queued a loaded content document
C10_Witness ==
    /\ worker.pc = "mark"
    /\ worker.folder_content # Absent
    /\ ~worker.had_renames
    /\ worker.called # {}

\* how often x occurs in the list s
Occurrences(s, x) == Cardinality({i \in DOMAIN s : s[i] = x})

\* what a second index_content_into_folders of su, run on the present state,
\* would leave in the folders' backlinks
IndexedAgain(su) ==
    index_content_into_folders(su, ContentsOf(su, contents),
                               find_all_folder_docs(filemeta), filemeta, backlinks)

\* C11: running index_content_into_folders a second time on the source just
\* indexed, with nothing changed in between, leaves the backlinks of every
\* folder as the first run left them, and no list holds the source twice
C11_IndexIdempotent ==
    obs.indexed # None =>
        /\ IndexedAgain(obs.indexed) = backlinks
        /\ \A f \in FolderUuids : \A t \in DOMAIN backlinks[f] :
              Occurrences(backlinks[f][t], obs.indexed) <= 1

\* a pass has left its source listed under a target, next to another source
C11_Witness ==
    /\ obs.indexed # None
    /\ \E f \in LoadedFolders, t \in ContentUuids :
          /\ IsBacklinker(obs.indexed, f, t)
          /\ Len(backlinks[f][t]) = 2

\* C12: after index_document(S), a target T that a wikilink of S resolves to
\* in folder B has S in B's list, and no other loaded folder A, in which no
\* link of S resolves to T, holds S under T
C12_OnlyTargetFolder ==
    obs.indexed # None =>
        \A B \in LoadedFolders : \A T \in ExpectedTargets(obs.indexed, B) :
            /\ IsBacklinker(obs.indexed, B, T)
            /\ \A A \in LoadedFolders \ {B} :
                  T \notin ExpectedTargets(obs.indexed, A)
                      => ~IsBacklinker(obs.indexed, A, T)

\* the targets that the current text of su resolves to, in whichever folder
AllTargets(su) ==
    {r[1] : r \in Resolved(contents[su], find_all_folder_docs(filemeta), filemeta)}

\* C13: an index pass on S removes S from the list of every target that no
\* wikilink of S resolves to any more; where S was the only source the key
\* is deleted, the other sources of a list stay, and no key is ever left
\* mapped to an empty list
C13_StaleRemoved ==
    /\ [](\A f \in FolderUuids : \A t \in DOMAIN backlinks[f] : backlinks[f][t] # <<>>)
    /\ [][obs'.indexed # None =>
            \A f \in LoadedFolders : \A t \in DOMAIN backlinks[f] :
                (IsBacklinker(obs'.indexed, f, t) /\ t \notin AllTargets(obs'.indexed))
                    => /\ ~Contains(read_backlinks_array(backlinks'[f], t), obs'.indexed)
                       /\ read_backlinks_array(backlinks'[f], t)
                              = Without(backlinks[f][t], obs'.indexed)
                       /\ backlinks[f][t] = <<obs'.indexed>>
                              => t \notin DOMAIN backlinks'[f]]_vars

\* a pass that added nothing to folder f has changed f's backlinks and left
\* them without any key: it has deleted the keys whose only source it was
C13_Witness ==
    /\ obs.indexed # None
    /\ \E f \in LoadedFolders :
          /\ \E t \in obs.txns : t.origin = IndexerOrigin /\ t.doc = MkDocId(Relay, f)
          /\ ExpectedTargets(obs.indexed, f) = {}
          /\ backlinks[f] = EmptyMap

C15_IndexAfterDebounce ==
    worker.pc = "index" => worker.ready

\* C16: a doc_id that identifies a folder document when the worker dequeues
\* it goes straight to the folder pass: the dequeue step leads to the folder
\* pass with no time elapsed, and the worker never sleeps on a doc_id that it
\* dequeued as a folder document
C16_FolderNoDebounce ==
    /\ [](worker.pc \in {"sleep", "wake"} => worker.folder_content = Absent)
    /\ [][(/\ worker.pc = "recv"
           /\ worker'.pc # "recv"
           /\ is_folder_doc(Head(queue), filemeta) # Absent)
              => /\ worker'.pc = "folder"
                 /\ worker'.doc_id = Head(queue)
                 /\ pending' = pending]_vars

\* the folder pass is about to run on a folder document whose latest update
\* is younger than the debounce window
C16_Witness ==
    /\ worker.pc = "folder"
    /\ is_folder_doc(worker.doc_id, filemeta) # Absent
    /\ PendingContains(pending, worker.doc_id)
    /\ pending[worker.doc_id] < DEBOUNCE_DURATION

\* a wake-up for doc_id is in the queue or about to be sent by a running
\* on_document_update
WakeupComing(doc_id) ==
    \/ Contains(queue, doc_id)
    \/ \E c \in BagToSet(callers) :
          /\ c.doc = doc_id
          /\ c.pc = "send" \/ (c.pc = "insert" /\ ShouldSend(c.already))
    \/ /\ worker.pc \in {"rq_insert", "rq_send"}
       /\ Head(worker.todo) = doc_id
       /\ ShouldSend(worker.already)

\* an on_document_update(doc_id) that began after the last mark_indexed(doc_id)
\* has found the entry present, and so sends nothing
CallSendsNothing(doc_id) ==
    \/ \E c \in BagToSet(callers) :
          c.doc = doc_id /\ c.pc = "insert" /\ ~ShouldSend(c.already) /\ ~c.late
    \/ /\ worker.pc = "rq_insert"
       /\ Head(worker.todo) = doc_id
       /\ ~ShouldSend(worker.already)

\* C17: when the worker finishes its pass on a document the document's
\* pending entry is gone, and the on_document_update calls that follow the
\* removal bring a new wake-up: none of them sends nothing while the worker
\* has left the document and no wake-up for it is queued or being sent
C17_RemovedThenRequeued ==
    /\ obs.marked # Absent => ~PendingContains(pending, obs.marked[1])
    /\ \A d \in DocIds :
          (CallSendsNothing(d) /\ worker.doc_id # d) => WakeupComing(d)

\* C18: on_document_update never makes its caller wait: whenever a call,
\* from a spawned task or from the worker's re-queue loop, has reached the
\* send, the send can complete at once, whatever the occupancy of the queue
C18_SendNeverWaits ==
    /\ \A c \in BagToSet(callers) : c.pc = "send" => ENABLED CallerSend(c)
    /\ worker.pc = "rq_send" => ENABLED WorkerRequeueSend

\* the loaded content documents, as doc_ids
LoadedContentIds == {MkDocId(Relay, u) : u \in DOMAIN contents}

\* C19: reindex_all_backlinks returns for every set of loaded documents, and
\* when it has returned every loaded content document has been indexed and
\* the filemeta cache holds the current snapshot of every loaded folder, so
\* that a folder pass on the unchanged folder detects no rename
C19_ReindexReturns ==
    obs.startup.ran =>
        /\ obs.startup.outcome = "returned"
        /\ LoadedFolders # {} => LoadedContentIds \subseteq obs.startup.indexed
        /\ \A f \in LoadedFolders :
              /\ MkDocId(Relay, f) \in DOMAIN filemeta_cache
              /\ filemeta_cache[MkDocId(Relay, f)] = CurrentSnapshot(filemeta[f])
              /\ detect_renames(MkDocId(Relay, f), filemeta[f],
                                filemeta_cache).renames = {}

\* C20: after any sequence of rebuild and update_folder operations, every
\* uuid for which path_for_uuid returns a path p has resolve_path(p) return
\* a DocInfo with that uuid
C20_PathOfUuidResolvesBack ==
    \A u \in ContentUuids :
        path_for_uuid(resolver, u) # Absent =>
            /\ resolve_path(resolver, path_for_uuid(resolver, u)[1]) # Absent
            /\ resolve_path(resolver, path_for_uuid(resolver, u)[1])[1].uuid = u

\* the paths of the resolver whose DocInfo names the folder document
OwnedPaths(r, folder_doc_id) ==
    {p \in DOMAIN r.path_to_doc : r.path_to_doc[p].folder_doc_id = folder_doc_id}

\* the uuids whose path is one of the folder document's paths
OwnedUuids(r, folder_doc_id) ==
    {u \in DOMAIN r.uuid_to_path :
        r.uuid_to_path[u] \in OwnedPaths(r, folder_doc_id)}

\* the user-facing paths of folder f's current filemeta
DerivedPaths(f, fms) ==
    {FullPath(derive_folder_name(FolderIndex(f, fms)), q) : q \in DOMAIN fms[f]}

\* C21: update_folder(F, index of F) replaces F's entries and no other: the
\* path_to_doc and uuid_to_path entries of every other folder are as before,
\* the paths owned by F afterwards are those of F's current filemeta, each
\* file of F resolves both ways, and a file F no longer lists has no path
C21_UpdateReplacesExactly ==
    [][obs'.resolved.op = "update_folder" =>
          LET f == obs'.resolved.folder
              F == MkDocId(Relay, f)
              name == derive_folder_name(FolderIndex(f, filemeta'))
          IN /\ \A g \in FolderUuids \ {f} :
                   /\ \A p \in OwnedPaths(resolver, MkDocId(Relay, g)) :
                         /\ p \in DOMAIN resolver'.path_to_doc
                         /\ resolver'.path_to_doc[p] = resolver.path_to_doc[p]
                   /\ \A u \in OwnedUuids(resolver, MkDocId(Relay, g)) :
                         /\ u \in DOMAIN resolver'.uuid_to_path
                         /\ resolver'.uuid_to_path[u] = resolver.uuid_to_path[u]
             /\ OwnedPaths(resolver', F) = DerivedPaths(f, filemeta')
             /\ \A q \in DOMAIN filemeta'[f] :
                   /\ resolve_path(resolver', FullPath(name, q)) # Absent
                   /\ resolve_path(resolver', FullPath(name, q))[1].uuid
                         = filemeta'[f][q]
                   /\ path_for_uuid(resolver', filemeta'[f][q])
                         = Some(FullPath(name, q))
             /\ \A u \in OwnedUuids(resolver, F) :
                   u \notin Listed(filemeta') =>
                       path_for_uuid(resolver', u) = Absent]_vars

\* the filemetas a folder can have beside the other folders of fms: every
\* file at one path, and no file of another folder
FilemetasBeside(f, fms) ==
    {fm \in UNION {[S -> ContentUuids \ Listed([fms EXCEPT ![f] = EmptyMap])] :
                      S \in SUBSET Paths} :
        \A p, q \in DOMAIN fm : fm[p] = fm[q] => p = q}

\* the stores that differ from fms in folder f's filemeta only and have the
\* same sorted list of folder documents
StoresBefore(f, fms) ==
    {[fms EXCEPT ![f] = fm] :
        fm \in {x \in FilemetasBeside(f, fms) :
                  (DOMAIN x = {}) = (DOMAIN fms[f] = {})}}

\* the resolvers a rebuild can leave for the store fms
Rebuilt(fms) == {rebuild(fms, orders) : orders \in FolderOrders(fms)}

\* C22: with the list of folder documents unchanged, update_folder(F, index
\* of F) after a change to folder F leaves the maps that a rebuild of the
\* changed store leaves: if the resolver was the result of a rebuild before
\* the change to F, it is the result of a rebuild after the update
C22_UpdateEqualsRebuild ==
    [][(/\ obs'.resolved.op = "update_folder"
        /\ \E before \in StoresBefore(obs'.resolved.folder, filemeta) :
              resolver \in Rebuilt(before))
       => resolver' \in Rebuilt(filemeta')]_vars

\* the (folder, filemeta path) pairs of the loaded folder documents
FolderEntries(fms) ==
    {x \in Range(find_all_folder_docs(fms)) \X Paths : x[2] \in DOMAIN fms[x[1]]}

\* C23: after rebuild the resolver holds, for each filemeta entry of each
\* loaded folder document, the path made of the folder's name (by position
\* in doc_id order) and the filemeta path, mapped to that entry's file and
\* folder; all_paths has one path per (folder, entry) pair and nothing else
C23_RebuildExact ==
    obs.resolved.op = "rebuild" =>
        /\ \A x \in FolderEntries(filemeta) :
              LET p == FullPath(derive_folder_name(FolderIndex(x[1], filemeta)),
                                x[2])
              IN /\ resolve_path(resolver, p) # Absent
                 /\ resolve_path(resolver, p)[1].uuid = filemeta[x[1]][x[2]]
                 /\ resolve_path(resolver, p)[1].folder_doc_id
                       = MkDocId(Relay, x[1])
                 /\ path_for_uuid(resolver, filemeta[x[1]][x[2]]) = Some(p)
        /\ Cardinality(all_paths(resolver)) = Cardinality(FolderEntries(filemeta))
        /\ all_paths(resolver) =
              {FullPath(derive_folder_name(FolderIndex(x[1], filemeta)), x[2]) :
                  x \in FolderEntries(filemeta)}
        /\ DOMAIN resolver.uuid_to_path = Listed(filemeta)

\* C24: the tools see the current folder metadata without a restart: once
\* the indexer's work for the changes is done, a tool call finds resolve_path,
\* path_for_uuid and all_paths as a rebuild of the current filemeta gives them
C24_ResolverFollowsFilemeta ==
    (Quiescent /\ obs.resolved.op = "dispatch_tool") =>
        resolver \in Rebuilt(filemeta)

\* why index_document fails on the worker's current document, or None
FailureOf(doc_id) ==
    IF parse_doc_id(doc_id) = Absent THEN "malformed"
    ELSE IF find_all_folder_docs(filemeta) = <<>> THEN "no folder"
    ELSE IF ~DocsContainsKey(doc_id, contents) THEN "not loaded"
    ELSE None

\* C25: an index pass that fails (malformed doc_id, no folder document
\* loaded, document not loaded) changes no backlinks_v0 and no content
\* document and commits nothing, and the worker goes on to mark_indexed and
\* from there to the next recv
C25_FailedPassChangesNothing ==
    [][/\ (worker.pc = "index" /\ worker'.pc # "index"
            /\ FailureOf(worker.doc_id) # None)
          => /\ backlinks' = backlinks
             /\ contents' = contents
             /\ obs'.txns = {}
             /\ worker'.pc = "mark"
       /\ (worker.pc = "mark" /\ worker'.pc # "mark")
          => /\ worker'.pc = "recv"
             /\ queue' = queue]_vars

\* C25 happens: each kind of failure has just been passed by the worker, with
\* more work waiting in the queue
C25_Witness ==
    /\ worker.pc = "mark"
    /\ obs.indexed = None
    /\ FailureOf(worker.doc_id) = "not loaded"
    /\ queue # <<>>

\* the step is the startup's reindex_all_backlinks
StartupStep == obs'.startup.ran /\ ~obs.startup.ran

\* C26: the worker takes the doc_ids one at a time in queue order: it
\* dequeues only between two passes and takes the oldest entry, a pass keeps
\* its doc_id until the worker is back in recv, and backlinks change only in
\* the index_document of the worker's current pass or in the startup's
\* reindex_all_backlinks, which runs while the worker has no pass
C26_OnePassAtATime ==
    [][/\ Len(queue') < Len(queue)
          => /\ worker.pc = "recv"
             /\ worker'.doc_id = Head(queue)
             /\ queue' = Tail(queue)
       /\ (worker.pc # "recv" /\ worker'.pc # "recv")
          => worker'.doc_id = worker.doc_id
       /\ backlinks' # backlinks
          => \/ /\ ~StartupStep
                /\ worker.pc = "index"
                /\ obs'.indexed = worker.doc_id[2]
             \/ /\ StartupStep
                /\ worker.pc = "recv"
                /\ worker' = worker
       /\ StartupStep
          => /\ worker.pc = "recv"
             /\ queue = <<>>
             /\ pending = EmptyMap
             /\ callers = EmptyBag]_vars

\* C26 happens: after the startup pass the worker is in the index pass of
\* one document while another doc_id waits in the queue
C26_Witness ==
    /\ env.booted
    /\ worker.pc = "index"
    /\ queue # <<>>
    /\ Head(queue) # worker.doc_id

\* the uuids of the entries of fm that match name in the given way
ExactMatches(name, fm) == {fm[p] : p \in {q \in DOMAIN fm : q = name}}
FullPathMatches(name, fm) ==
    {fm[p] : p \in {q \in DOMAIN fm : /\ Lower(q.dir) = Lower(name.dir)
                                      /\ Lower(q.base) = Lower(name.base)}}
BasenameMatches(name, fm) ==
    {fm[p] : p \in {q \in DOMAIN fm : /\ name.dir = ""
                                      /\ Lower(q.base) = Lower(name.base)}}
AnyMatch(name, fm) ==
    ExactMatches(name, fm) \cup FullPathMatches(name, fm) \cup BasenameMatches(name, fm)

\* the matches of the most preferred way that has any
PreferredMatches(name, fm) ==
    IF ExactMatches(name, fm) # {} THEN ExactMatches(name, fm)
    ELSE IF FullPathMatches(name, fm) # {} THEN FullPathMatches(name, fm)
    ELSE BasenameMatches(name, fm)

\* the folders before f in the order of find_all_folder_docs
FoldersBefore(f, fms) ==
    LET fs == find_all_folder_docs(fms)
    IN {fs[i] : i \in {j \in DOMAIN fs : \E k \in DOMAIN fs : j < k /\ fs[k] = f}}

\* (folder, target) pairs under which source is listed
ListedUnder(source, bls) ==
    {x \in FolderUuids \X ContentUuids :
        x[2] \in DOMAIN bls[x[1]] /\ Contains(bls[x[1]][x[2]], source)}

NamesOutsideCode(markdown) ==
    {markdown[i].name : i \in {j \in DOMAIN markdown : markdown[j].kind = "link"}}
NamesInCode(markdown) ==
    {markdown[i].name :
        i \in {j \in DOMAIN markdown : markdown[j].kind \in {"code", "fence"}}}

\* (folder, target) of every name that resolves in some folder
ResolutionsOf(names, fms) ==
    {<<ResolveAcross(n, find_all_folder_docs(fms), fms)[2],
       ResolveAcross(n, find_all_folder_docs(fms), fms)[1]>> :
        n \in {x \in names : ResolveAcross(x, find_all_folder_docs(fms), fms) # Absent}}

C29_DeadWorkerStaysDead ==
    [][/\ (worker.pc = "panicked" /\ worker' # worker)
            => (worker'.pc = "ended" /\ obs'.log = "CRITICAL")
       /\ worker.pc = "ended"
            => /\ worker' = worker
               /\ backlinks' = backlinks
               /\ filemeta_cache' = filemeta_cache
               /\ queue' = queue
               /\ \A t \in obs'.txns : t.origin # IndexerOrigin
               /\ ~obs'.renames.ran]_vars

\* after the end of the worker an on_document_update call inserted its entry
\* and its send failed
C29_Witness ==
    /\ worker.pc = "ended"
    /\ obs.log = "send failed"
    /\ pending # EmptyMap
    /\ queue = <<>>

\* C30: for every entry d of the pending set a wake-up for d is in the queue
\* or about to be sent, or the worker is on its pass for d
C30_PendingHasWakeup ==
    \A d \in DOMAIN pending :
        \/ WakeupComing(d)
        \/ worker.pc # "recv" /\ worker.doc_id = d

\* C31: a worker that is not waiting at rx.recv() for a wake-up always has a
\* next step, in particular the send of the re-queue loop whatever the
\* occupancy of the queue
C31_WorkerNeverStuck ==
    worker.pc # "recv" => ENABLED Worker

\* C32: no routine waits for a document lock that is never released: the
\* worker's index_document is never inside the write lock of a document it
\* holds for reading, and neither is the startup pass
C32_NoSelfLock ==
    /\ worker.pc # "blocked"
    /\ obs.startup.outcome \notin SelfLockOutcomes

\* the loaded content documents the folder of the worker's pass lists
LoadedListed(w) ==
    {MkDocId(Relay, u) : u \in Range(w.folder_content) \cap DOMAIN contents}

\* the folder pass that has just run found an entry added or removed since
\* the pass before it
SawAddOrRemove ==
    /\ obs.renames.ran
    /\ obs.renames.prev # Absent
    /\ DOMAIN obs.renames.prev[1] # DOMAIN CurrentSnapshot(filemeta[obs.renames.folder])

\* C33: a folder pass that found entries added or removed ends with an
\* on_document_update call for every loaded content document the folder
\* lists, also when the pass processed a rename
C33_AddRemoveRequeues ==
    (/\ worker.pc = "mark"
     /\ worker.folder_content # Absent
     /\ SawAddOrRemove) => LoadedListed(worker) \subseteq worker.called

\* C34: a wake-up of a loaded content document that is in the queue is
\* received by the worker in the end, whatever happens to the document the
\* worker is debouncing (a worker that is held in its own send on the full
\* queue is left aside here)
C34_QueuedIsReceived ==
    Contains(queue, MkDocId(Relay, WaitingDoc))
        ~> \/ worker.doc_id = MkDocId(Relay, WaitingDoc)
           \/ worker.pc = "rq_send" /\ Len(queue) >= ChannelCapacity

\* C35: after a folder pass the cached snapshot of the folder is the map from
\* each listed uuid to its present basename, whether or not the pass emitted
\* events, and a second detect_renames on the unchanged folder emits nothing
C35_SnapshotIsCurrent ==
    obs.renames.ran =>
        LET f == obs.renames.folder
            fm == filemeta[f]
        IN /\ MkDocId(Relay, f) \in DOMAIN filemeta_cache
           /\ filemeta_cache[MkDocId(Relay, f)]
                = [u \in {fm[p] : p \in DOMAIN fm} |-> BasenameOfUuid(fm, u)]
           /\ detect_renames(MkDocId(Relay, f), fm, filemeta_cache).renames = {}

\* a pass on a folder seen before emitted no event although an entry had
\* been added or removed
C35_Witness ==
    /\ obs.renames.ran
    /\ obs.renames.events = <<>>
    /\ SawAddOrRemove

\* the positions of the wikilinks outside code whose name is old_name
MatchingTokens(markdown, old_name) ==
    {k \in DOMAIN markdown :
        markdown[k].kind = "link" /\ markdown[k].name = Path("", old_name)}

\* C36: update_wikilinks_in_doc leaves a text of the same tokens in which
\* every wikilink outside code named old_name has the name new_name and its
\* suffix as before, every other token is as before, and the count returned
\* is the number of those wikilinks
C36_RewriteTouchesOnlyMatches ==
    obs.rewrite.ran =>
        LET before == obs.rewrite.before
            after == contents[obs.rewrite.uuid]
            hits == MatchingTokens(before, obs.rewrite.old_name)
        IN /\ Len(after) = Len(before)
           /\ \A k \in DOMAIN before :
                 after[k] = IF k \in hits
                            THEN [before[k] EXCEPT
                                     !.name = Path("", obs.rewrite.new_name)]
                            ELSE before[k]
           /\ obs.rewrite.count = Cardinality(hits)

\* two wikilinks were rewritten to a longer name beside the same name in code
C36_Witness ==
    /\ obs.rewrite.ran
    /\ obs.rewrite.count = 2
    /\ obs.rewrite.new_name = "Notes"
    /\ \E k \in DOMAIN obs.rewrite.before :
          /\ obs.rewrite.before[k].kind \in {"code", "fence"}
          /\ obs.rewrite.before[k].name = Path("", obs.rewrite.old_name)
          /\ contents[obs.rewrite.uuid][k] = obs.rewrite.before[k]

\* C37  A burst of updates to one content document puts at most one message
\*      for it on the search worker's queue, and the search worker
\*      re-indexes a dequeued content document only when no update to it
\*      arrived during the last SEARCH_DEBOUNCE.
C37_SearchBurstDebounced ==
    /\ \A i, j \in DOMAIN search.queue :
          (i # j /\ search.queue[i] = search.queue[j])
              => is_folder_doc(search.queue[i], filemeta) # Absent
    /\ obs.upsert.ran => obs.upsert.since >= SEARCH_DEBOUNCE

\* C38  The edit tool modifies a document only if the session named by
\*      session_id existed and the read tool had completed a read of that
\*      document in that session; every other call ends with an error and
\*      leaves every document as it was.
C38_EditNeedsRead ==
    obs.edit.ran =>
        /\ obs.edit.result \in {"Ok", "located"} =>
              /\ obs.edit.existed
              /\ <<obs.edit.session_id, obs.edit.doc_id>> \in mcp.reads
        /\ obs.edit.result # "Ok" => contents = obs.edit.before

C38_Witness ==
    /\ obs.edit.ran
    /\ obs.edit.result = "Ok"
    /\ contents # obs.edit.before
    /\ \E other \in DOMAIN mcp.sessions :
          /\ other # obs.edit.session_id
          /\ obs.edit.doc_id \notin mcp.sessions[other]

\* C39  The write step of the edit tool applies the edit exactly when the
\*      text at the located offset still equals old_string; when another
\*      writer has changed it the call is rejected and the document is left
\*      as it was.
C39_EditOverOldStringOnly ==
    (obs.edit.ran /\ obs.edit.step = "write") =>
        LET u == obs.edit.doc_id[2]
            was == obs.edit.before[u]
            n == Len(obs.edit.old_string)
            o == obs.edit.byte_offset
            still == /\ o + n <= Len(was)
                     /\ \A i \in 1..n : was[o + i] = obs.edit.old_string[i]
        IN IF still
           THEN /\ obs.edit.result = "Ok"
                /\ contents = [obs.edit.before EXCEPT ![u] =
                       SubSeq(was, 1, o) \o obs.edit.replacement
                           \o SubSeq(was, o + n + 1, Len(was))]
           ELSE /\ obs.edit.result = "Document changed since last read"
                /\ contents = obs.edit.before

C39_Witness ==
    /\ obs.edit.ran
    /\ obs.edit.step = "write"
    /\ obs.edit.result = "Document changed since last read"
    /\ MatchIndices(contents[obs.edit.doc_id[2]], obs.edit.old_string, 0) # <<>>

====
